---- MODULE Spec2Model ----
(***************************************************************************)
(* Retrieval-and-caching core of hypera: RetrievalResult construction,     *)
(* ContextWindow / ContextManager (src/retrieval/context.py), RateLimiter  *)
(* and ResultCache (src/retrieval/cache.py), AdaptiveRetriever             *)
(* (src/retrieval/adaptive_retriever.py), FallbackManager                  *)
(* (src/retrieval/fallback.py), GeminiRetriever (src/retrieval/gemini.py), *)
(* MetricsTracker (src/retrieval/metrics.py), ReasoningSystem              *)
(* (src/reasoning/agents/system.py), SystemCoordinator                     *)
(* (src/core/coordinator.py) and callers sharing one RateLimiter.          *)
(*                                                                         *)
(* Conventions of the model                                                *)
(*   - similarity scores and relevances are exact rationals in hundredths  *)
(*     (0.7 is 70); a relevance is the pair [sum, n] standing for sum/n;   *)
(*   - a chunk is modelled by the length in characters of its "content";   *)
(*   - the clock is an integer number of seconds; the bucket's token count *)
(*     is kept in sixtieths of a token so the refill                       *)
(*     elapsed * (requests_per_minute / 60) is exact;                      *)
(*   - Optional[X] is a sequence of length 0 (None) or 1;                  *)
(*   - a call that raises is recorded by the name of the exception class;  *)
(*   - a query complexity and an average latency are exact rationals       *)
(*     [num, den];                                                         *)
(*   - each component has its own specification; the variables of the      *)
(*     other components stay at their initial values under it.             *)
(***************************************************************************)
EXTENDS Integers, Sequences, FiniteSets, TLC

VARIABLES
    rr_input,         \* arguments handed to RetrievalResult(...)
    rr_out,           \* outcome of the construction
    window,           \* ContextWindow: max_tokens, current_tokens, contents
    context_history,  \* ContextManager.context_history
    ctx_call,         \* the last call on the window / manager and what it returned
    now,              \* time.time() / datetime.now()
    rl_config,        \* RateLimiter.config
    tokens,           \* RateLimiter.tokens, in sixtieths of a token
    last_update,      \* RateLimiter.last_update
    requests,         \* RateLimiter.requests (deque of timestamps)
    rl_call,          \* the last acquire(): state it started from, what it returned
    rl_burst,         \* results of the acquire() calls issued at the current instant
    rl_grants,        \* history: timestamp of every grant since construction
    cache_config,     \* ResultCache.config
    cache,            \* ResultCache.cache, in dict (insertion) order
    hits,             \* ResultCache.hits
    misses,           \* ResultCache.misses
    cache_call,       \* the last put()/get() and what it returned
    coordinator,      \* AdaptiveRetriever.coordinator: None, or the agents' contexts
    shared_knowledge, \* the coordinator's shared knowledge under "performance"
    query_patterns,   \* AdaptiveRetriever.query_patterns
    performance,      \* AdaptiveRetriever.performance
    primitive_calls,  \* history: calls made to GeminiRetriever.retrieve
    ar_call,          \* the last call on the AdaptiveRetriever and its outcome
    fb_config,        \* FallbackManager.config
    failure_history,  \* FallbackManager.failure_history
    fb_call,          \* the last call on the FallbackManager and its outcome
    gm_call,          \* the last GeminiRetriever.retrieve(): its inputs and its outcome
    rs_pc,            \* ReasoningSystem.analyze: where the call stands
    rs_start,         \* the time the agent tasks were created
    rs_tasks,         \* the task of each agent: its status and its result
    rs_report,        \* the ComprehensiveAnalysis analyze() returned, if any
    callers,          \* the coroutines calling RateLimiter.acquire(): where each stands
    taken,            \* history: how often acquire() took a token (line 87)
    stamped,          \* history: how often acquire() appended a timestamp (line 88)
    metrics_history,  \* MetricsTracker.metrics_history
    mt_call,          \* the last calculate_metrics(): its argument and its outcome
    sc_config,        \* SystemCoordinator.config.enable_retrieval_cache
    sc_cache,         \* SystemCoordinator.cache
    system_metrics,   \* SystemCoordinator.system_metrics
    agent_metrics,    \* SystemCoordinator.agent_metrics
    sc_calls,         \* the analyze_code() calls: where each stands
    analyze_runs,     \* history: reasoning.analyze calls made per cache key
    sc_last           \* the last analyze_code() that returned an analysis, and the metrics before it

vars == <<rr_input, rr_out, window, context_history, ctx_call, now, rl_config,
          tokens, last_update, requests, rl_call, rl_burst, rl_grants,
          cache_config, cache, hits, misses, cache_call,
          coordinator, shared_knowledge, query_patterns, performance,
          primitive_calls, ar_call, fb_config, failure_history, fb_call,
          gm_call,
          rs_pc, rs_start, rs_tasks, rs_report,
          callers, taken, stamped,
          metrics_history, mt_call,
          sc_config, sc_cache, system_metrics, agent_metrics, sc_calls, analyze_runs, sc_last>>

resultVars  == <<rr_input, rr_out>>
contextVars == <<window, context_history, ctx_call>>
limiterVars == <<rl_config, tokens, last_update, requests, rl_call, rl_burst, rl_grants>>
cacheVars   == <<cache_config, cache, hits, misses, cache_call>>

retrieverVars == <<coordinator, shared_knowledge, query_patterns, performance,
                   primitive_calls, ar_call>>

fallbackVars == <<fb_config, failure_history, fb_call>>

geminiVars == <<gm_call>>

reasoningVars == <<rs_pc, rs_start, rs_tasks, rs_report>>

callersVars == <<callers, taken, stamped>>

metricsVars == <<metrics_history, mt_call>>

coordinatorVars == <<sc_config, sc_cache, system_metrics, agent_metrics, sc_calls, analyze_runs, sc_last>>

\* What an action on one component leaves alone
exceptResult    == <<contextVars, now, limiterVars, cacheVars, retrieverVars, fallbackVars, geminiVars, reasoningVars, callersVars, metricsVars, coordinatorVars>>
exceptContext   == <<resultVars, now, limiterVars, cacheVars, retrieverVars, fallbackVars, geminiVars, reasoningVars, callersVars, metricsVars, coordinatorVars>>
exceptLimiter   == <<resultVars, contextVars, cacheVars, retrieverVars, fallbackVars, geminiVars, reasoningVars, callersVars, metricsVars, coordinatorVars>>
exceptCache     == <<resultVars, contextVars, limiterVars, retrieverVars, fallbackVars, geminiVars, reasoningVars, callersVars, metricsVars, coordinatorVars>>
exceptRetriever == <<resultVars, contextVars, now, limiterVars, cacheVars, fallbackVars, geminiVars, reasoningVars, callersVars, metricsVars, coordinatorVars>>
exceptFallback  == <<resultVars, contextVars, limiterVars, cacheVars, retrieverVars, geminiVars, reasoningVars, callersVars, metricsVars, coordinatorVars>>
exceptGemini == <<resultVars, contextVars, now, limiterVars, cacheVars, retrieverVars, fallbackVars, reasoningVars, callersVars, metricsVars, coordinatorVars>>
exceptReasoning == <<resultVars, contextVars, limiterVars, cacheVars, retrieverVars, fallbackVars, geminiVars, callersVars, metricsVars, coordinatorVars>>
\* The callers act on the limiter they share
exceptCallers == <<resultVars, contextVars, cacheVars, retrieverVars, fallbackVars, geminiVars, reasoningVars, metricsVars, coordinatorVars>>
exceptMetrics == <<resultVars, contextVars, now, limiterVars, cacheVars, retrieverVars, fallbackVars, geminiVars, reasoningVars, callersVars, coordinatorVars>>
exceptCoordinator == <<resultVars, contextVars, now, limiterVars, cacheVars, retrieverVars, fallbackVars, geminiVars, reasoningVars, callersVars, metricsVars>>

----------------------------------------------------------------------------
(* Helpers *)

RECURSIVE SumSeq(_)
SumSeq(s) == IF s = <<>> THEN 0 ELSE Head(s) + SumSeq(Tail(s))

Min(a, b) == IF a <= b THEN a ELSE b
Max(a, b) == IF a >= b THEN a ELSE b

\* All sequences over S of length 0..n
SeqUpTo(S, n) == UNION {[1..k -> S] : k \in 0..n}

----------------------------------------------------------------------------
(* Queries and results: src/retrieval/types.py *)

QueryTypes == {"code_search", "semantic_search"}

\* RetrievalQuery; filters is left at its default_factory value, context at None
MkQuery(text, qtype, minsim) ==
    [query |-> text, query_type |-> qtype, max_results |-> 10,
     min_similarity |-> minsim, include_context |-> TRUE]

\* RetrievalResult.validate_chunks: an empty list passes; a chunk whose
\* "content" is missing or empty (length 0) raises ValueError
validate_chunks(v) == \A i \in 1..Len(v) : v[i] # 0

\* RetrievalResult.validate_scores: every score within [0, 1]
validate_scores(v) == \A i \in 1..Len(v) : 0 <= v[i] /\ v[i] <= 100

\* RetrievalResult(query=..., chunks=..., similarity_scores=..., context=...):
\* the field validators are the only checks the class declares
Accepts(chunks, scores) == validate_chunks(chunks) /\ validate_scores(scores)

MkResult(q, chunks, scores, ctx) ==
    [query |-> q, chunks |-> chunks, similarity_scores |-> scores, context |-> ctx]

Construct(inp) ==
    IF Accepts(inp.chunks, inp.similarity_scores)
    THEN [raised |-> FALSE,
          value |-> <<MkResult(inp.query, inp.chunks, inp.similarity_scores, inp.context)>>]
    ELSE [raised |-> TRUE, value |-> <<>>]

----------------------------------------------------------------------------
(* ContextWindow: src/retrieval/context.py, lines 12-43 *)

\* Capacities a bare window is built with, and those of the window a manager
\* owns (the tests shrink it to 100 and to 1000)
MaxTokensChoices == {0, 100, 1000}
ManagerMaxTokensChoices == {100, 1000}

NewWindow(m) == [max_tokens |-> m, current_tokens |-> 0, contents |-> <<>>]

\* can_add with a strict comparison
can_add_lt(w, token_count) == w.current_tokens + token_count < w.max_tokens

\* ContextWindow.can_add
can_add(w, token_count) == w.current_tokens + token_count <= w.max_tokens

\* ContextWindow.add_content: the window afterwards, and the value returned
add_content(w, content, token_count) ==
    IF can_add(w, token_count)
    THEN [window |-> [w EXCEPT !.contents = Append(@, content),
                               !.current_tokens = @ + token_count],
          ret |-> TRUE]
    ELSE [window |-> w, ret |-> FALSE]

\* ContextWindow.clear
clear(w) == [w EXCEPT !.contents = <<>>, !.current_tokens = 0]

----------------------------------------------------------------------------
(* ContextManager: src/retrieval/context.py, lines 45-156 *)

\* _estimate_tokens(content), on the length of content: len(content) // 4
_estimate_tokens(content_len) == content_len \div 4

\* _calculate_relevance: 0.0 without scores, else the mean of the scores
_calculate_relevance(result) ==
    IF result.similarity_scores = <<>>
    THEN [sum |-> 0, n |-> 1]
    ELSE [sum |-> SumSeq(result.similarity_scores), n |-> Len(result.similarity_scores)]

\* a.sum/a.n < b.sum/b.n
RelLess(a, b) == a.sum * b.n < b.sum * a.n

\* Length of the fixed part of str(result): field names, the repr of the query,
\* of the scores and of the other chunk keys (456 characters for the results
\* the tests build)
ReprOverhead == 456

\* len(str(result)): the repr holds every chunk's content and the context in full
StrLen(result) ==
    ReprOverhead + SumSeq(result.chunks)
    + (IF result.context = <<>> THEN 0 ELSE result.context[1])

\* add_result, lines 96-102: the estimate charged for a result
total_tokens(result) ==
    SumSeq([i \in 1..Len(result.chunks) |-> _estimate_tokens(result.chunks[i])])
    + (IF result.context = <<>> THEN 0 ELSE _estimate_tokens(result.context[1]))

\* A floor of 0.5
min_relevance_low == 70 - 20

\* _optimize_window, line 131
min_relevance == 70

\* scores.sort(key=lambda x: x[1], reverse=True): stable, descending by relevance
RECURSIVE InsertDesc(_, _)
InsertDesc(e, sorted) ==
    IF sorted = <<>> THEN <<e>>
    ELSE IF RelLess(Head(sorted).relevance, e.relevance)
         THEN <<e>> \o sorted
         ELSE <<Head(sorted)>> \o InsertDesc(e, Tail(sorted))

RECURSIVE SortDesc(_)
SortDesc(s) ==
    IF s = <<>> THEN <<>>
    ELSE InsertDesc(s[Len(s)], SortDesc(SubSeq(s, 1, Len(s) - 1)))

\* _optimize_window, lines 129-140: the loop over the sorted scores; acc holds
\* optimized_content and current_tokens
RECURSIVE KeepLoop(_, _, _, _)
KeepLoop(scores, acc, budget, floor) ==
    IF scores = <<>> THEN acc
    ELSE LET e == Head(scores)
             content_tokens == StrLen(e.result)
         IN  IF RelLess(e.relevance, [sum |-> floor, n |-> 1])
             THEN KeepLoop(Tail(scores), acc, budget, floor)
             ELSE IF acc.current_tokens + content_tokens <= budget
                  THEN KeepLoop(Tail(scores),
                                [optimized_content |-> Append(acc.optimized_content, e),
                                 current_tokens |-> acc.current_tokens + content_tokens],
                                budget, floor)
                  ELSE KeepLoop(Tail(scores), acc, budget, floor)

\* _optimize_window, lines 143-145: clear, then add_content each kept entry
\* charged len(str(result))
RECURSIVE Refill(_, _)
Refill(w, kept) ==
    IF kept = <<>> THEN w
    ELSE Refill(add_content(w, Head(kept), StrLen(Head(kept).result)).window, Tail(kept))

\* ContextManager._optimize_window(new_result, required_tokens)
_optimize_window(w, new_result, required_tokens) ==
    IF w.contents = <<>>
    THEN [window |-> w, ret |-> TRUE, path |-> "optimize_empty"]
    ELSE LET scores == SortDesc(w.contents)
             acc == KeepLoop(scores, [optimized_content |-> <<>>, current_tokens |-> 0],
                             w.max_tokens - required_tokens, min_relevance)
         IN  [window |-> Refill(clear(w), acc.optimized_content),
              ret |-> TRUE, path |-> "optimize"]

\* ContextManager.add_result: window and history afterwards, value returned,
\* and the path taken
add_result(w, history, result) ==
    LET tt == total_tokens(result)
    IN  IF can_add(w, tt)
        THEN [window |-> add_content(w, [result |-> result,
                                        relevance |-> _calculate_relevance(result)],
                                     tt).window,
              history |-> Append(history, result), ret |-> TRUE, path |-> "direct"]
        ELSE LET o == _optimize_window(w, result, tt)
             IN  [window |-> o.window, history |-> history, ret |-> o.ret,
                  path |-> o.path]

\* ContextManager.get_current_context
get_current_context(w) == [i \in 1..Len(w.contents) |-> w.contents[i].result]

----------------------------------------------------------------------------
(* Inputs of the context model *)

\* The query of create_test_result (tests/retrieval/test_context.py)
TestQuery == MkQuery("test query", "code_search", 70)

ContentLens == {16, 1980}
ScoreVals == {50, 80, 95}

\* create_test_result(content, score), a result left without scores (as in
\* test_context_relevance_calculation) and one carrying a CodeContext whose
\* str(dict) is 400 characters long
ContextResults ==
    {MkResult(TestQuery, <<l>>, <<s>>, <<>>) : l \in ContentLens, s \in ScoreVals}
    \cup {MkResult(TestQuery, <<16>>, <<>>, <<>>),
          MkResult(TestQuery, <<16>>, <<95>>, <<400>>)}

Entry(result) == [result |-> result, relevance |-> _calculate_relevance(result)]

\* Contents handed to ContextWindow.add_content directly
WindowContents ==
    {Entry(MkResult(TestQuery, <<16>>, <<s>>, <<>>)) : s \in {50, 95}}

\* Token counts handed to can_add / add_content: small ones, what is left,
\* one more than what is left, and the whole capacity
TokenArgs(w) ==
    {0, 1, w.max_tokens - w.current_tokens,
     w.max_tokens - w.current_tokens + 1, w.max_tokens}

\* The model stops admitting once the history / the contents hold this many
MaxHistory == 5
MaxContents == 3

NoCall(w) == [op |-> "none", arg |-> <<>>, n |-> 0, ret |-> FALSE,
              path |-> "none", pre |-> w]

----------------------------------------------------------------------------
(* Initial values *)

ResultIdle ==
    /\ rr_input = [query |-> TestQuery, chunks |-> <<>>, similarity_scores |-> <<>>,
                   context |-> <<>>]
    /\ rr_out = [done |-> FALSE, raised |-> FALSE, value |-> <<>>]

ContextInit(choices) ==
    /\ \E m \in choices :
          /\ window = NewWindow(m)
          /\ ctx_call = NoCall(NewWindow(m))
    /\ context_history = <<>>

ContextIdle ==
    /\ window = NewWindow(0)
    /\ ctx_call = NoCall(NewWindow(0))
    /\ context_history = <<>>

----------------------------------------------------------------------------
(* Actions on a ContextWindow *)

\* window.can_add(n)
CanAdd(n) ==
    /\ ctx_call' = [op |-> "can_add", arg |-> <<>>, n |-> n,
                    ret |-> can_add(window, n), path |-> "none", pre |-> window]
    /\ UNCHANGED <<window, context_history, exceptContext>>

\* window.add_content(content, n)
AddContent(content, n) ==
    /\ Len(window.contents) < MaxContents
    /\ LET a == add_content(window, content, n)
       IN  /\ window' = a.window
           /\ ctx_call' = [op |-> "add_content", arg |-> <<content.result>>, n |-> n,
                           ret |-> a.ret, path |-> "none", pre |-> window]
    /\ UNCHANGED <<context_history, exceptContext>>

\* window.clear()
Clear ==
    /\ window' = clear(window)
    /\ ctx_call' = [op |-> "clear", arg |-> <<>>, n |-> 0, ret |-> TRUE,
                    path |-> "none", pre |-> window]
    /\ UNCHANGED <<context_history, exceptContext>>

(* Actions on a ContextManager *)

\* manager.add_result(result)
AddResult(result) ==
    /\ Len(context_history) < MaxHistory
    /\ LET a == add_result(window, context_history, result)
       IN  /\ window' = a.window
           /\ context_history' = a.history
           /\ ctx_call' = [op |-> "add_result", arg |-> <<result>>,
                           n |-> total_tokens(result), ret |-> a.ret,
                           path |-> a.path, pre |-> window]
    /\ UNCHANGED exceptContext

\* manager.clear_context()
ClearContext ==
    /\ window' = clear(window)
    /\ context_history' = <<>>
    /\ ctx_call' = [op |-> "clear_context", arg |-> <<>>, n |-> 0, ret |-> TRUE,
                    path |-> "none", pre |-> window]
    /\ UNCHANGED exceptContext

----------------------------------------------------------------------------
(* RateLimiter: src/retrieval/cache.py, lines 18-89 *)

\* Largest requests_per_minute and burst_limit configured, and the time at
\* which the clock of the limiter model stops
MaxRpm == 3
MaxBurst == 3
MaxTime == 82

\* acquire(), lines 73 and 78: the length of the sliding window, in seconds
WindowSeconds == 60

\* RateLimitConfig (a plain dataclass: no field is validated)
RateLimitConfigs ==
    [requests_per_minute : 0..MaxRpm, burst_limit : 0..MaxBurst,
     cooldown_seconds : {0, 1}]

\* A bucket that starts empty
init_tokens_empty(cfg) == 0

\* RateLimiter.__init__, line 48: self.tokens = burst_limit (in sixtieths)
init_tokens(cfg) == cfg.burst_limit * 60

\* RateLimiter._refill_tokens at time t, lines 54-59 (in sixtieths of a token:
\* elapsed * (requests_per_minute / 60.0) tokens are elapsed * rpm sixtieths)
_refill_tokens(tok, last, cfg, t) ==
    Min(cfg.burst_limit * 60, tok + (t - last) * cfg.requests_per_minute)

\* acquire(), lines 73-74: popleft while the oldest is older than 60 seconds
RECURSIVE prune(_, _)
prune(reqs, t) ==
    IF reqs # <<>> /\ Head(reqs) < t - WindowSeconds
    THEN prune(Tail(reqs), t)
    ELSE reqs

\* deque(maxlen=n).append(x): a full deque drops its leftmost element, and a
\* deque of maxlen 0 stays empty
deque_append(d, x, maxlen) ==
    IF maxlen = 0 THEN <<>>
    ELSE IF Len(d) >= maxlen THEN Append(Tail(d), x)
    ELSE Append(d, x)

\* The rate-limit check with a strict comparison
window_full_gt(reqs, cfg) == Len(reqs) > cfg.requests_per_minute

\* acquire(), line 77: the rate-limit check
window_full(reqs, cfg) == Len(reqs) >= cfg.requests_per_minute

\* acquire(), line 87: self.tokens -= 1
consume(tok) == tok - 60

\* RateLimiter.acquire() at time t: the limiter afterwards and what the call
\* returned; raised marks an exception leaving acquire() (self.requests[0] on an
\* empty deque is an IndexError)
acquire(tok, last, reqs, cfg, t) ==
    LET refilled == _refill_tokens(tok, last, cfg, t)
        pruned == prune(reqs, t)
    IN  IF window_full(pruned, cfg)
        THEN IF pruned = <<>>
             THEN [tokens |-> refilled, last_update |-> t, requests |-> pruned,
                   raised |-> TRUE, granted |-> FALSE, wait |-> 0]
             ELSE [tokens |-> refilled, last_update |-> t, requests |-> pruned,
                   raised |-> FALSE, granted |-> FALSE,
                   wait |-> Max(0, WindowSeconds - (t - Head(pruned)))]
        ELSE IF refilled < 60
             THEN [tokens |-> refilled, last_update |-> t, requests |-> pruned,
                   raised |-> FALSE, granted |-> FALSE, wait |-> cfg.cooldown_seconds]
             ELSE [tokens |-> consume(refilled), last_update |-> t,
                   requests |-> deque_append(pruned, t, cfg.requests_per_minute),
                   raised |-> FALSE, granted |-> TRUE, wait |-> 0]

NoAcquire == [op |-> "none", t |-> 0, raised |-> FALSE, granted |-> FALSE, wait |-> 0,
              pre_tokens |-> 0, pre_last |-> 0, pre_requests |-> <<>>]

LimiterInit(configs) ==
    /\ now = 0
    /\ rl_config \in configs
    /\ tokens = init_tokens(rl_config)
    /\ last_update = 0
    /\ requests = <<>>
    /\ rl_call = NoAcquire
    /\ rl_burst = <<>>
    /\ rl_grants = <<>>

LimiterIdle ==
    /\ rl_config = [requests_per_minute |-> 60, burst_limit |-> 10, cooldown_seconds |-> 1]
    /\ tokens = init_tokens(rl_config)
    /\ last_update = 0
    /\ requests = <<>>
    /\ rl_call = NoAcquire
    /\ rl_burst = <<>>
    /\ rl_grants = <<>>

\* await limiter.acquire()
Acquire ==
    /\ Len(rl_burst) < MaxBurst + 2
    /\ LET a == acquire(tokens, last_update, requests, rl_config, now)
       IN  /\ tokens' = a.tokens
           /\ last_update' = a.last_update
           /\ requests' = a.requests
           /\ rl_call' = [op |-> "acquire", t |-> now, raised |-> a.raised,
                          granted |-> a.granted, wait |-> a.wait, pre_tokens |-> tokens,
                          pre_last |-> last_update, pre_requests |-> requests]
           /\ rl_burst' = Append(rl_burst, [raised |-> a.raised, granted |-> a.granted,
                                            wait |-> a.wait])
           /\ rl_grants' = IF a.granted THEN Append(rl_grants, now) ELSE rl_grants
    /\ UNCHANGED <<now, rl_config, exceptLimiter>>

\* Time passes between two calls on the limiter
LimiterTick(d) ==
    /\ now + d <= MaxTime
    /\ now' = now + d
    /\ rl_burst' = <<>>
    /\ UNCHANGED <<rl_config, tokens, last_update, requests, rl_call, rl_grants, exceptLimiter>>

----------------------------------------------------------------------------
(* ResultCache: src/retrieval/cache.py, lines 91-196 *)

\* The number of get() calls after which the model stops looking up, and the
\* time at which the clock of the cache model stops
MaxGets == 2
CacheMaxTime == 2

\* CacheConfig: a time to live of one second; no room, room for one entry, and
\* room for two of the three keys of the model
CacheConfigs == [ttl_seconds : {1}, max_size : {0, 1, 2}]

\* Three cache keys; the last query differs from the first in min_similarity
\* alone, which is no part of the key
CacheQueries ==
    {MkQuery("a", "code_search", 70), MkQuery("b", "code_search", 70),
     MkQuery("a", "semantic_search", 70), MkQuery("a", "code_search", 50)}

\* One result per key, each carrying the query it answers
CacheResults ==
    {MkResult(q, <<16>>, <<95>>, <<>>) : q \in {c \in CacheQueries : c.min_similarity = 70}}

\* A key computed from the query text alone
_compute_key_text(q) == <<q.query>>

\* _compute_key: sha256 over the JSON of (query, query_type, filters,
\* max_results); the digest is modelled by the tuple it is computed from
\* (filters holds its default value in every query of the model)
_compute_key(q) == <<q.query, q.query_type, q.max_results>>

\* A comparison of the whole query objects
_is_similar_query_whole(cached_query, new_query) == cached_query = new_query

\* _is_similar_query
_is_similar_query(cached_query, new_query) ==
    /\ cached_query.query = new_query.query
    /\ cached_query.query_type = new_query.query_type

\* Position of key in the dict, 0 when absent
IndexOf(c, key) ==
    IF \E i \in 1..Len(c) : c[i].key = key
    THEN CHOOSE i \in 1..Len(c) : c[i].key = key
    ELSE 0

RemoveAt(c, i) == SubSeq(c, 1, i - 1) \o SubSeq(c, i + 1, Len(c))

\* A TTL check that also expires an entry whose age equals ttl_seconds
expired_ge(timestamp, cfg, t) == t - timestamp >= cfg.ttl_seconds

\* datetime.now() - timestamp > timedelta(seconds=self.config.ttl_seconds)
expired(timestamp, cfg, t) == t - timestamp > cfg.ttl_seconds

\* A miss that is not counted
count_miss_none(m) == m

\* self.misses += 1
count_miss(m) == m + 1

\* ResultCache.get(query) at time t
get(c, h, m, cfg, q, t) ==
    LET i == IndexOf(c, _compute_key(q))
    IN  IF i # 0
        THEN IF expired(c[i].timestamp, cfg, t)
             THEN [cache |-> RemoveAt(c, i), hits |-> h, misses |-> count_miss(m),
                   ret |-> <<>>]
             ELSE IF _is_similar_query(c[i].result.query, q)
                  THEN [cache |-> c, hits |-> h + 1, misses |-> m, ret |-> <<c[i].result>>]
                  ELSE [cache |-> c, hits |-> h, misses |-> count_miss(m), ret |-> <<>>]
        ELSE [cache |-> c, hits |-> h, misses |-> count_miss(m), ret |-> <<>>]

\* self.cache[key] = (result, datetime.now()): an existing key keeps its place
\* in the dict
store(c, key, result, t) ==
    LET i == IndexOf(c, key)
        e == [key |-> key, result |-> result, timestamp |-> t]
    IN  IF i # 0 THEN [c EXCEPT ![i] = e] ELSE Append(c, e)

\* sorted(self.cache.items(), key=timestamp): positions of the dict in stable
\* ascending order of timestamp; Oldest(c, k) is the first k of them
Rank(c, i) ==
    Cardinality({j \in 1..Len(c) :
        \/ c[j].timestamp < c[i].timestamp
        \/ (c[j].timestamp = c[i].timestamp /\ j < i)})

\* The last k of them
Youngest(c, k) == {i \in 1..Len(c) : Rank(c, i) >= Len(c) - k}

Oldest(c, k) == {i \in 1..Len(c) : Rank(c, i) < k}

RECURSIVE DropAll(_, _, _)
DropAll(c, drop, i) ==
    IF i > Len(c) THEN <<>>
    ELSE (IF i \in drop THEN <<>> ELSE <<c[i]>>) \o DropAll(c, drop, i + 1)

\* ResultCache.put(query, result) at time t
put(c, cfg, q, result, t) ==
    LET stored == store(c, _compute_key(q), result, t)
    IN  IF Len(stored) > cfg.max_size
        THEN DropAll(stored, Oldest(stored, Len(stored) - cfg.max_size), 1)
        ELSE stored

\* The keys of the dict
Keys(c) == {c[i].key : i \in 1..Len(c)}

\* pre_hits, pre_misses and pre_cache are the counters and the dict before the
\* call; a get() also records in prev_* the call made immediately before it (a
\* tick of the clock counts as one)
NoCacheCall == [op |-> "none", query |-> <<>>, result |-> <<>>, ret |-> <<>>,
                pre_hits |-> 0, pre_misses |-> 0, pre_cache |-> <<>>,
                prev_op |-> "none", prev_query |-> <<>>, prev_result |-> <<>>]

CacheInit ==
    /\ now = 0
    /\ cache_config \in CacheConfigs
    /\ cache = <<>>
    /\ hits = 0
    /\ misses = 0
    /\ cache_call = NoCacheCall

CacheIdle ==
    /\ cache_config = [ttl_seconds |-> 1, max_size |-> 0]
    /\ cache = <<>>
    /\ hits = 0
    /\ misses = 0
    /\ cache_call = NoCacheCall

\* cache.get(query)
Get(q) ==
    /\ hits + misses < MaxGets
    /\ LET g == get(cache, hits, misses, cache_config, q, now)
       IN  /\ cache' = g.cache
           /\ hits' = g.hits
           /\ misses' = g.misses
           /\ cache_call' = [op |-> "get", query |-> <<q>>, result |-> <<>>,
                             ret |-> g.ret, pre_hits |-> hits, pre_misses |-> misses,
                             pre_cache |-> cache,
                             prev_op |-> cache_call.op,
                             prev_query |-> cache_call.query,
                             prev_result |-> cache_call.result]
    /\ UNCHANGED <<now, cache_config, exceptCache>>

\* cache.put(query, result)
Put(q, result) ==
    /\ cache' = put(cache, cache_config, q, result, now)
    /\ cache_call' = [op |-> "put", query |-> <<q>>, result |-> <<result>>,
                      ret |-> <<>>, pre_hits |-> hits, pre_misses |-> misses,
                      pre_cache |-> cache,
                      prev_op |-> "none", prev_query |-> <<>>, prev_result |-> <<>>]
    /\ UNCHANGED <<now, cache_config, hits, misses, exceptCache>>

\* Time passes between two calls on the cache
CacheTick ==
    /\ now < CacheMaxTime
    /\ now' = now + 1
    /\ cache_call' = [NoCacheCall EXCEPT !.op = "tick"]
    /\ UNCHANGED <<cache_config, cache, hits, misses, exceptCache>>

----------------------------------------------------------------------------
(* RetrievalResult construction *)

\* Arguments tried on the constructor: chunk contents of length 0 (empty), 16
\* and 1980, scores of -0.1, 0.5, 0.95 and 1.1, up to MaxChunks of each
MaxChunks == 2

RawInputs ==
    [query : {TestQuery}, chunks : SeqUpTo({0, 16, 1980}, MaxChunks),
     similarity_scores : SeqUpTo({-10, 50, 95, 110}, MaxChunks), context : {<<>>}]

ResultInit ==
    /\ rr_input \in RawInputs
    /\ rr_out = [done |-> FALSE, raised |-> FALSE, value |-> <<>>]

\* RetrievalResult(**rr_input)
ConstructResult ==
    /\ ~rr_out.done
    /\ LET c == Construct(rr_input)
       IN  rr_out' = [done |-> TRUE, raised |-> c.raised, value |-> c.value]
    /\ UNCHANGED <<rr_input, exceptResult>>

----------------------------------------------------------------------------
(* AdaptiveRetriever: src/retrieval/adaptive_retriever.py *)

\* The number of calls that reach the retrieval primitive
MaxRetrieves == 2

\* Query texts as whitespace-separated tokens: no word, one word, two words of
\* which one is an exact phrase in double quotes, four words
QueryTexts ==
    {<<>>, <<"find">>, <<"find", "\"auth\"">>, <<"find", "the", "auth", "check">>}

\* The objects handed to the retriever as a query: a RetrievalQuery of types.py,
\* whose attributes are query, query_type, filters, context, max_results,
\* min_similarity and include_context (text holds its query string), and an
\* object that carries the attributes text, filters (a list, here by its
\* length), code_context and metadata
RetrieverQueries ==
    [cls : {"RetrievalQuery"}, text : {<<"find">>, <<"find", "the", "auth", "check">>},
     filters : {0}, code_context : {FALSE}, metadata : {FALSE}]
    \cup
    {q \in [cls : {"QueryLike"}, text : QueryTexts, filters : {0, 2},
            code_context : BOOLEAN, metadata : BOOLEAN] :
        q.metadata => q.code_context}

\* The queries retrieve() is called with: those without filters and metadata
RetrieveQueries == {q \in RetrieverQueries : q.filters = 0 /\ ~q.metadata}

\* agent_id: None or the id of an agent
AgentIds == {<<>>, <<"agent-1">>}

\* What the coordinator holds for agent-1: nothing, a context without
\* window_size, a context with a window_size at and around the two thresholds
AgentContexts ==
    {<<>>, <<[window_size |-> <<>>]>>}
    \cup {<<[window_size |-> <<n>>]>> :
            n \in {500000, 500001, 1000000, 1000001}}

\* AgentCoordinator.get_agent_context(agent_id): the context held for the agent
get_agent_context(coord, agent_id) == coord[1]

\* AgentCoordinator.share_knowledge("retriever", {"performance": {name: entry}}):
\* mappings merge key-wise, the incoming value winning
share_knowledge(shared, name, entry) == [shared EXCEPT ![name] = <<entry>>]

\* self.search_strategies, in dict order
StrategyNames == <<"quick", "balanced", "thorough">>

search_strategies ==
    [quick    |-> [similarity_threshold |-> 70, max_results |-> 5,
                   rerank_count |-> 10, use_metadata |-> FALSE],
     balanced |-> [similarity_threshold |-> 60, max_results |-> 10,
                   rerank_count |-> 20, use_metadata |-> TRUE],
     thorough |-> [similarity_threshold |-> 50, max_results |-> 20,
                   rerank_count |-> 40, use_metadata |-> TRUE]]

\* QueryPerformance(); avg_latency is the exact rational num / den
QueryPerformance ==
    [total_queries |-> 0, successful_queries |-> 0,
     avg_latency |-> [num |-> 0, den |-> 1], last_updated |-> 0]

\* query.text.split() and query.text.count('"')
split(text) == text

count_quotes(text) ==
    SumSeq([i \in 1..Len(text) |-> IF text[i] = "\"auth\"" THEN 2 ELSE 0])

\* bool as a factor of the weighted sum
AsInt(b) == IF b THEN 1 ELSE 0

\* weights, in tenths
weights == <<3, 2, 1, 2, 2>>

\* _estimate_query_complexity: the rational num / den, or the exception raised
\* by the first attribute the object lacks
_estimate_query_complexity(query) ==
    IF query.cls = "RetrievalQuery"
    THEN [raised |-> "AttributeError", value |-> <<>>]
    ELSE LET factors == <<Len(split(query.text)), query.filters,
                          count_quotes(query.text), AsInt(query.code_context),
                          AsInt(query.metadata)>>
         IN  [raised |-> "none",
              value |-> <<[num |-> SumSeq([i \in 1..5 |-> factors[i] * weights[i]]),
                           den |-> SumSeq(weights)]>>]

\* The comparison complexity > tenths / 10
Above(c, tenths) == c.num * 10 > tenths * c.den

\* _select_strategy, lines 152-158
choose_strategy(c, window_size) ==
    IF Above(c, 8) \/ window_size > 1000000 THEN "thorough"
    ELSE IF Above(c, 4) \/ window_size > 500000 THEN "balanced"
    ELSE "quick"

\* _select_strategy, lines 146-150: the window size the choice is made on
window_size_of(agent_context) ==
    IF agent_context # <<>> /\ agent_context[1].window_size # <<>>
    THEN agent_context[1].window_size[1]
    ELSE 500000

\* _select_strategy: the name of the strategy returned, or the exception raised
_select_strategy(coord, query, agent_id) ==
    LET agent_context == IF coord # <<>> /\ agent_id # <<>>
                         THEN get_agent_context(coord, agent_id)
                         ELSE <<>>
        query_complexity == _estimate_query_complexity(query)
    IN  IF query_complexity.raised # "none"
        THEN [raised |-> query_complexity.raised, name |-> "none",
              complexity |-> <<>>, window_size |-> window_size_of(agent_context)]
        ELSE [raised |-> "none",
              name |-> choose_strategy(query_complexity.value[1],
                                       window_size_of(agent_context)),
              complexity |-> query_complexity.value,
              window_size |-> window_size_of(agent_context)]

\* _get_strategy_name: the first name whose strategy has the threshold and the
\* max_results of the one given
RECURSIVE NameFrom(_, _)
NameFrom(strategy, i) ==
    IF i > Len(StrategyNames) THEN "custom"
    ELSE IF /\ search_strategies[StrategyNames[i]].similarity_threshold
                  = strategy.similarity_threshold
            /\ search_strategies[StrategyNames[i]].max_results = strategy.max_results
         THEN StrategyNames[i]
         ELSE NameFrom(strategy, i + 1)

_get_strategy_name(strategy) == NameFrom(strategy, 1)

\* _enhance_query: a copy of the query; _enhance_filters and _enhance_context
\* return what they are given
_enhance_query(query, patterns) == query

\* The keyword arguments retrieve() passes on, and those
\* GeminiRetriever.retrieve(self, query) accepts
StrategyKeywords ==
    {"similarity_threshold", "max_results", "rerank_count", "use_metadata"}

GeminiKeywords == {}

\* super().retrieve(enhanced_query, **keywords): a keyword the base method does
\* not accept raises TypeError at the call; otherwise the base method runs
super_retrieve(query, keywords) ==
    IF keywords \subseteq GeminiKeywords
    THEN [raised |-> "none", ret |-> <<[query |-> query, chunks |-> <<>>,
                                       similarity_scores |-> <<>>, context |-> <<>>]>>]
    ELSE [raised |-> "TypeError", ret |-> <<>>]

\* An update that takes every call for a success
_update_performance_success(perf, name, success, latency, t) ==
    [perf EXCEPT ![name].total_queries = @ + 1,
                 ![name].successful_queries = @ + 1,
                 ![name].last_updated = t]

\* _update_performance, lines 212-224
_update_performance(perf, name, success, latency, t) ==
    IF name \notin DOMAIN perf THEN perf
    ELSE LET total == perf[name].total_queries + 1
             avg == perf[name].avg_latency
         IN  [perf EXCEPT
                ![name].total_queries = total,
                ![name].successful_queries = IF success THEN @ + 1 ELSE @,
                ![name].avg_latency =
                    IF success
                    THEN [num |-> avg.num * (total - 1) + latency * avg.den,
                          den |-> avg.den * total]
                    ELSE @,
                ![name].last_updated = t]

\* _update_performance, lines 227-241: what is shared with the coordinator
shared_entry(p) ==
    [success_rate |-> [num |-> p.successful_queries, den |-> p.total_queries],
     avg_latency |-> p.avg_latency, last_updated |-> p.last_updated]

\* _learn_patterns: the filter_enhancement pattern of a query with filters
_learn_patterns(patterns, query, t) ==
    IF query.filters = 0 THEN patterns
    ELSE IF patterns = <<>>
         THEN <<[pattern_type |-> "filter_enhancement", frequency |-> 1,
                 success_rate |-> 100, last_seen |-> t, examples |-> 1]>>
         ELSE <<[patterns[1] EXCEPT !.frequency = @ + 1, !.last_seen = t,
                                    !.examples = Min(@ + 1, 5)]>>

\* AdaptiveRetriever.retrieve(query, agent_id) at time t
retrieve(coord, shared, patterns, perf, query, agent_id, t) ==
    LET sel == _select_strategy(coord, query, agent_id)
        unchanged == [shared |-> shared, patterns |-> patterns, perf |-> perf]
    IN  IF sel.raised # "none"
        THEN unchanged @@ [raised |-> sel.raised, ret |-> <<>>, strategy |-> "none",
                           primitive |-> 0, primitive_raised |-> "none"]
        ELSE LET strategy == search_strategies[sel.name]
                 call == super_retrieve(_enhance_query(query, patterns), StrategyKeywords)
                 name == _get_strategy_name(strategy)
                 perf2 == _update_performance(perf, name, call.raised = "none", 0, t)
                 shared2 == IF coord # <<>> /\ name \in DOMAIN perf
                            THEN share_knowledge(shared, name, shared_entry(perf2[name]))
                            ELSE shared
             IN  IF call.raised = "none"
                 THEN [shared |-> shared2, perf |-> perf2,
                       patterns |-> _learn_patterns(patterns, query, t),
                       raised |-> "none", ret |-> call.ret, strategy |-> sel.name,
                       primitive |-> 1, primitive_raised |-> "none"]
                 ELSE [shared |-> shared2, perf |-> perf2, patterns |-> patterns,
                       raised |-> call.raised, ret |-> <<>>, strategy |-> sel.name,
                       primitive |-> 1, primitive_raised |-> call.raised]

\* primitive is the number of calls made to the retrieval primitive and
\* primitive_raised what the primitive raised; same is TRUE when the call before
\* this retrieve() was a retrieve() of the same query for the same agent, and
\* prev_raised and prev_ret are its outcome
NoRetrieverCall ==
    [op |-> "none", query |-> <<>>, agent_id |-> <<>>, raised |-> "none",
     ret |-> <<>>, strategy |-> "none", complexity |-> <<>>, window_size |-> 0,
     primitive |-> 0, primitive_raised |-> "none",
     pre_performance |-> <<>>, pre_patterns |-> <<>>,
     same |-> FALSE, prev_raised |-> "none", prev_ret |-> <<>>]

\* The fields lines 50-74 of __init__ assign
RetrieverInit ==
    /\ coordinator \in {<<>>} \cup {<<c>> : c \in AgentContexts}
    /\ shared_knowledge = [n \in {"quick", "balanced", "thorough"} |-> <<>>]
    /\ query_patterns = <<>>
    /\ performance = [n \in {"quick", "balanced", "thorough"} |-> QueryPerformance]
    /\ primitive_calls = 0
    /\ ar_call = NoRetrieverCall

RetrieverIdle ==
    /\ coordinator = <<>>
    /\ shared_knowledge = [n \in {"quick", "balanced", "thorough"} |-> <<>>]
    /\ query_patterns = <<>>
    /\ performance = [n \in {"quick", "balanced", "thorough"} |-> QueryPerformance]
    /\ primitive_calls = 0
    /\ ar_call = NoRetrieverCall

\* retriever._estimate_query_complexity(query)
EstimateQueryComplexity(query) ==
    /\ LET c == _estimate_query_complexity(query)
       IN  ar_call' = [NoRetrieverCall EXCEPT !.op = "_estimate_query_complexity",
                          !.query = <<query>>, !.raised = c.raised,
                          !.complexity = c.value]
    /\ UNCHANGED <<coordinator, shared_knowledge, query_patterns, performance,
                   primitive_calls, exceptRetriever>>

\* await retriever._select_strategy(query, agent_id)
SelectStrategy(query, agent_id) ==
    /\ LET sel == _select_strategy(coordinator, query, agent_id)
       IN  ar_call' = [NoRetrieverCall EXCEPT !.op = "_select_strategy",
                          !.query = <<query>>, !.agent_id = agent_id,
                          !.raised = sel.raised, !.strategy = sel.name,
                          !.complexity = sel.complexity,
                          !.window_size = sel.window_size]
    /\ UNCHANGED <<coordinator, shared_knowledge, query_patterns, performance,
                   primitive_calls, exceptRetriever>>

\* await retriever.retrieve(query, agent_id)
Retrieve(query, agent_id) ==
    /\ primitive_calls < MaxRetrieves
    /\ LET r == retrieve(coordinator, shared_knowledge, query_patterns, performance,
                         query, agent_id, now)
       IN  /\ shared_knowledge' = r.shared
           /\ query_patterns' = r.patterns
           /\ performance' = r.perf
           /\ primitive_calls' = primitive_calls + r.primitive
           /\ ar_call' = [NoRetrieverCall EXCEPT !.op = "retrieve",
                             !.query = <<query>>, !.agent_id = agent_id,
                             !.raised = r.raised, !.ret = r.ret,
                             !.strategy = r.strategy, !.primitive = r.primitive,
                             !.primitive_raised = r.primitive_raised,
                             !.pre_performance = <<performance>>,
                             !.pre_patterns = <<query_patterns>>,
                             !.same = /\ ar_call.op = "retrieve"
                                      /\ ar_call.query = <<query>>
                                      /\ ar_call.agent_id = agent_id,
                             !.prev_raised = ar_call.raised,
                             !.prev_ret = ar_call.ret]
    /\ UNCHANGED <<coordinator, exceptRetriever>>

----------------------------------------------------------------------------
(* FallbackManager: src/retrieval/fallback.py *)

\* The number of failures the history holds at most, and the time after which
\* the clock of the fallback model stops
MaxFailures == 3
FbMaxTime == 600

\* FallbackConfig.__post_init__: the default order of the strategies
DefaultStrategies ==
    <<"cache_only", "reduced_context", "simplified_query", "local_search",
      "error_only">>

\* FallbackConfig: the defaults, and two other orders of strategies
FallbackConfigs ==
    [max_retries : {3}, retry_delay : {1},
     strategies : {DefaultStrategies, <<"cache_only", "error_only">>,
                   <<"local_search", "cache_only">>}]

\* The errors handed to the manager, by class and by the words of str(error)
FallbackErrors ==
    {[cls |-> "Exception", message |-> <<"boom">>],
     [cls |-> "ConnectionError", message |-> <<"refused">>],
     [cls |-> "TimeoutError", message |-> <<"timed", "out">>],
     [cls |-> "Exception", message |-> <<"Rate", "limit", "exceeded", "by", "key">>]}

\* The classes an exception class derives from, itself included
Mro(cls) ==
    IF cls = "ConnectionError" THEN {"ConnectionError", "OSError", "Exception"}
    ELSE IF cls = "TimeoutError" THEN {"TimeoutError", "OSError", "Exception"}
    ELSE {"Exception"}

isinstance(error, classes) == Mro(error.cls) \cap classes # {}

\* str.startswith, on words
startswith(message, prefix) ==
    /\ Len(message) >= Len(prefix)
    /\ SubSeq(message, 1, Len(prefix)) = prefix

\* _record_failure at time t: append, then keep the failures of the last hour
_record_failure(history, error, t) ==
    SelectSeq(Append(history, [dt |-> t, error |-> error]),
              LAMBDA f : f.dt >= t - 3600)

\* A count that leaves out the failure recorded exactly five minutes ago
recent_failures_strict(history, t) ==
    Len(SelectSeq(history, LAMBDA f : f.dt > t - 300))

\* _should_activate_fallback, lines 79-82
recent_failures(history, t) ==
    Len(SelectSeq(history, LAMBDA f : f.dt >= t - 300))

\* _should_activate_fallback at time t
_should_activate_fallback(history, error, t) ==
    \/ recent_failures(history, t) >= 3
    \/ isinstance(error, {"TimeoutError", "ConnectionError"})
    \/ startswith(error.message, <<"Rate", "limit", "exceeded">>)

\* _execute_fallback: a placeholder that returns None
_execute_fallback(query) == <<>>

\* _simplify_query
_simplify_query(query) ==
    [query EXCEPT !.max_results = Min(@, 5), !.include_context = FALSE]

\* handle_failure, lines 132-171: the strategies visited and what is returned
RECURSIVE TryStrategies(_, _, _, _)
TryStrategies(strategies, i, query, tried) ==
    IF i > Len(strategies) THEN [ret |-> <<>>, tried |-> tried]
    ELSE LET strategy == strategies[i]
             visited == Append(tried, strategy)
         IN  IF strategy = "cache_only" \/ strategy = "local_search"
             THEN TryStrategies(strategies, i + 1, query, visited)
             ELSE IF strategy = "reduced_context"
             THEN [ret |-> _execute_fallback([query EXCEPT !.include_context = FALSE]),
                   tried |-> visited]
             ELSE IF strategy = "simplified_query"
             THEN [ret |-> _execute_fallback(_simplify_query(query)), tried |-> visited]
             ELSE IF strategy = "error_only"
             THEN [ret |-> <<MkResult(query, <<>>, <<>>, <<>>)>>, tried |-> visited]
             ELSE TryStrategies(strategies, i + 1, query, visited)

\* handle_failure(error, query, attempt) at time t. On the plain-retry path
\* time.sleep(retry_delay * attempt) blocks for that long and returns None,
\* and awaiting None raises TypeError.
handle_failure(history, cfg, error, query, attempt, t) ==
    LET recorded == _record_failure(history, error, t)
        idle == [history |-> recorded, now |-> t, raised |-> "none", ret |-> <<>>,
                 escalated |-> FALSE, tried |-> <<>>]
    IN  IF attempt > cfg.max_retries THEN idle
        ELSE IF ~_should_activate_fallback(recorded, error, t)
        THEN [idle EXCEPT !.now = t + cfg.retry_delay * attempt, !.raised = "TypeError"]
        ELSE LET r == TryStrategies(cfg.strategies, 1, query, <<>>)
             IN  [idle EXCEPT !.escalated = TRUE, !.ret = r.ret, !.tried = r.tried]

NoFallbackCall ==
    [op |-> "none", error |-> <<>>, attempt |-> 0, raised |-> "none", ret |-> <<>>,
     activate |-> FALSE, escalated |-> FALSE, tried |-> <<>>]

FallbackInit ==
    /\ now = 0
    /\ fb_config \in FallbackConfigs
    /\ failure_history = <<>>
    /\ fb_call = NoFallbackCall

FallbackIdle ==
    /\ fb_config = [max_retries |-> 3, retry_delay |-> 1, strategies |-> DefaultStrategies]
    /\ failure_history = <<>>
    /\ fb_call = NoFallbackCall

\* manager._should_activate_fallback(error)
ShouldActivateFallback(error) ==
    /\ fb_call' = [NoFallbackCall EXCEPT !.op = "_should_activate_fallback",
                      !.error = <<error>>,
                      !.activate = _should_activate_fallback(failure_history, error, now)]
    /\ UNCHANGED <<now, fb_config, failure_history, exceptFallback>>

\* await manager.handle_failure(error, query, attempt)
HandleFailure(error, query, attempt) ==
    /\ Len(failure_history) < MaxFailures
    /\ LET h == handle_failure(failure_history, fb_config, error, query, attempt, now)
       IN  /\ failure_history' = h.history
           /\ now' = h.now
           /\ fb_call' = [NoFallbackCall EXCEPT !.op = "handle_failure",
                             !.error = <<error>>, !.attempt = attempt,
                             !.raised = h.raised, !.ret = h.ret,
                             !.escalated = h.escalated, !.tried = h.tried]
    /\ UNCHANGED <<fb_config, exceptFallback>>

\* Time passes between two calls on the manager
FallbackTick(d) ==
    /\ now < FbMaxTime
    /\ now' = now + d
    /\ fb_call' = [NoFallbackCall EXCEPT !.op = "tick"]
    /\ UNCHANGED <<fb_config, failure_history, exceptFallback>>

----------------------------------------------------------------------------
(* GeminiRetriever: src/retrieval/gemini.py *)

\* The number of results the vector search returns at most
MaxHits == 2

\* What qdrant.search returns: scored points, each with the length of its
\* payload's "content" and its score
SearchResults == SeqUpTo([content : {0, 16}, score : {50, 95}], MaxHits)

\* The queries handed to retrieve()
GeminiQueries ==
    {[TestQuery EXCEPT !.include_context = b, !.max_results = n] :
        b \in BOOLEAN, n \in {MaxHits, 10}}

\* model.generate_content_async(prompt): answers, or fails
ModelOutcomes == {"answers", "fails"}

\* The fields CodeContext declares without a default (types.py:46)
CodeContextRequired == {"code_snippet"}

\* CodeContext(**fields): pydantic rejects a missing required field
CodeContext(fields) ==
    IF CodeContextRequired \subseteq fields
    THEN [raised |-> "none", value |-> <<fields>>]
    ELSE [raised |-> "ValidationError", value |-> <<>>]

\* _enrich_context(chunks) under an outcome of the model call
_enrich_context(chunks, model) ==
    IF model = "fails" THEN [raised |-> "Exception", value |-> <<>>]
    ELSE CodeContext({"dependencies", "callers", "related_files", "documentation"})

\* GeminiRetriever.retrieve(query), lines 138-170, given what the vector
\* search returns and what the model call does
gemini_retrieve(query, search_results, model) ==
    LET chunks == [i \in 1..Len(search_results) |-> search_results[i].content]
        scores == [i \in 1..Len(search_results) |-> search_results[i].score]
        enriched == IF query.include_context THEN _enrich_context(chunks, model)
                    ELSE [raised |-> "none", value |-> <<>>]
        built == Construct([query |-> query, chunks |-> chunks,
                            similarity_scores |-> scores, context |-> enriched.value])
    IN  IF enriched.raised # "none" THEN [raised |-> enriched.raised, ret |-> <<>>]
        ELSE IF built.raised THEN [raised |-> "ValidationError", ret |-> <<>>]
        ELSE [raised |-> "none", ret |-> built.value]

NoGeminiCall ==
    [op |-> "none", query |-> <<>>, search_results |-> <<>>, model |-> "none",
     raised |-> "none", ret |-> <<>>]

GeminiIdle == gm_call = NoGeminiCall

\* await retriever.retrieve(query)
GeminiRetrieve(query, search_results, model) ==
    /\ Len(search_results) <= query.max_results
    /\ LET r == gemini_retrieve(query, search_results, model)
       IN  gm_call' = [op |-> "retrieve", query |-> <<query>>,
                       search_results |-> search_results, model |-> model,
                       raised |-> r.raised, ret |-> r.ret]
    /\ UNCHANGED exceptGemini

----------------------------------------------------------------------------
(* ReasoningSystem: src/reasoning/agents/system.py *)

\* self.agents, in the order of the dict (lines 80-86)
agents == <<"behavioral", "security", "pattern", "metrics", "dependency">>

AgentKeys == {agents[i] : i \in 1..Len(agents)}

\* BaseAgent.name (base.py:165-173): the lower-cased class name without "agent"
agent_name(key) == key \o "analysis"

\* asyncio.wait_for(..., timeout=30)
AgentTimeout == 30

\* The fields AgentAnalysis declares without a default (types.py:297-302)
AgentAnalysisRequired ==
    {"agent_name", "findings", "supporting_evidence", "confidence", "analysis_type",
     "severity"}

\* AgentAnalysis(**fields): pydantic rejects a missing required field
AgentAnalysis(fields) ==
    IF AgentAnalysisRequired \subseteq DOMAIN fields
    THEN [raised |-> "none", value |-> <<fields>>]
    ELSE [raised |-> "ValidationError", value |-> <<>>]

\* What agent.analyze(context) returns when it completes in time
agent_analyze(key) ==
    [agent_name |-> agent_name(key), findings |-> "findings",
     supporting_evidence |-> <<>>, confidence |-> 90, analysis_type |-> key,
     severity |-> "info"]

\* _run_agent_with_timeout: the AgentAnalysis the handlers of lines 243-258 build
error_analysis(key, finding, warning) ==
    AgentAnalysis([agent_name |-> agent_name(key), understanding_level |-> "surface",
                   findings |-> finding, confidence |-> 0, warnings |-> <<warning>>])

\* _run_agent_with_timeout(agent, context) when agent.analyze returns in time,
\* raises in time, or is still running after AgentTimeout seconds
_run_agent_with_timeout(key, outcome) ==
    IF outcome = "returned"
    THEN [raised |-> "none", value |-> <<agent_analyze(key)>>]
    ELSE IF outcome = "timed_out"
    THEN error_analysis(key, "Analysis timed out", "Agent timed out after 30 seconds")
    ELSE error_analysis(key, "agent error", "Agent failed")

NoTask == [status |-> "none", outcome |-> "none", raised |-> "none", value |-> <<>>]

\* The results of the tasks that hold an exception / an analysis, in task order
RECURSIVE Issues(_, _)
Issues(tasks, i) ==
    IF i > Len(agents) THEN <<>>
    ELSE (IF tasks[agents[i]].raised # "none" THEN <<tasks[agents[i]].raised>> ELSE <<>>)
         \o Issues(tasks, i + 1)

RECURSIVE ValidAnalyses(_, _)
ValidAnalyses(tasks, i) ==
    IF i > Len(agents) THEN <<>>
    ELSE (IF tasks[agents[i]].raised = "none" THEN tasks[agents[i]].value ELSE <<>>)
         \o ValidAnalyses(tasks, i + 1)

\* analyze, lines 134-201, on the results asyncio.gather handed back
build_report(tasks) ==
    LET valid_analyses == ValidAnalyses(tasks, 1)
        issues == Issues(tasks, 1)
    IN  [agent_analyses |-> valid_analyses, warnings |-> issues,
         analysed |-> Len(valid_analyses),
         success |-> \A i \in 1..Len(valid_analyses) : valid_analyses[i].confidence > 50]

ReasoningIdle ==
    /\ rs_pc = "idle"
    /\ rs_start = 0
    /\ rs_tasks = [k \in AgentKeys |-> NoTask]
    /\ rs_report = <<>>

\* analyze(), lines 124-132: one task per agent is created, then gathered
StartAnalyze ==
    /\ rs_pc = "idle"
    /\ rs_pc' = "gathering"
    /\ rs_start' = now
    /\ rs_tasks' = [k \in AgentKeys |-> [NoTask EXCEPT !.status = "running"]]
    /\ UNCHANGED <<now, rs_report, exceptReasoning>>

\* The task of one agent ends
Finish(key, outcome) ==
    LET r == _run_agent_with_timeout(key, outcome)
    IN  rs_tasks' = [rs_tasks EXCEPT ![key] = [status |-> "done", outcome |-> outcome,
                                               raised |-> r.raised, value |-> r.value]]

\* agent.analyze(context) returns before the timeout
AgentReturns(key) ==
    /\ rs_pc = "gathering" /\ rs_tasks[key].status = "running"
    /\ now - rs_start < AgentTimeout
    /\ Finish(key, "returned")
    /\ UNCHANGED <<now, rs_pc, rs_start, rs_report, exceptReasoning>>

\* agent.analyze(context) raises before the timeout
AgentRaises(key) ==
    /\ rs_pc = "gathering" /\ rs_tasks[key].status = "running"
    /\ now - rs_start < AgentTimeout
    /\ Finish(key, "raised")
    /\ UNCHANGED <<now, rs_pc, rs_start, rs_report, exceptReasoning>>

\* wait_for cancels agent.analyze(context) after AgentTimeout seconds
AgentTimesOut(key) ==
    /\ rs_pc = "gathering" /\ rs_tasks[key].status = "running"
    /\ now - rs_start = AgentTimeout
    /\ Finish(key, "timed_out")
    /\ UNCHANGED <<now, rs_pc, rs_start, rs_report, exceptReasoning>>

\* Time passes while the tasks run; a timer that is due fires before it does
ReasoningTick(d) ==
    /\ rs_pc = "gathering"
    /\ \E k \in AgentKeys : rs_tasks[k].status = "running"
    /\ now + d - rs_start <= AgentTimeout
    /\ now' = now + d
    /\ UNCHANGED <<rs_pc, rs_start, rs_tasks, rs_report, exceptReasoning>>

\* asyncio.gather returns once every task is done; analyze builds the report
Gather ==
    /\ rs_pc = "gathering"
    /\ \A k \in AgentKeys : rs_tasks[k].status = "done"
    /\ rs_pc' = "done"
    /\ rs_report' = <<build_report(rs_tasks)>>
    /\ UNCHANGED <<now, rs_start, rs_tasks, exceptReasoning>>

----------------------------------------------------------------------------
(* Concurrent callers of RateLimiter.acquire: src/retrieval/cache.py, 62-89 *)

\* The number of coroutines that call acquire() on one limiter
MaxCallers == 3

Callers == 1..MaxCallers

\* A suspension point right after the token is taken
suspension_points_mid == {"consumed"}

\* The points of acquire() at which the coroutine can be suspended: its body
\* (lines 69-89) holds no await
suspension_points == {}

\* t is the time a suspended caller read at line 72
NoCaller == [pc |-> "ready", t |-> 0, granted |-> FALSE]

CallersIdle ==
    /\ callers = [c \in Callers |-> NoCaller]
    /\ taken = 0
    /\ stamped = 0

\* The scheduler runs caller c up to its next suspension point or to its end.
\* A caller suspended after line 87 resumes at line 88 with the time it read.
CallerRun(c) ==
    /\ callers[c].pc \in {"ready", "consumed"}
    /\ IF callers[c].pc = "consumed"
       THEN /\ requests' = deque_append(requests, callers[c].t,
                                        rl_config.requests_per_minute)
            /\ stamped' = stamped + 1
            /\ callers' = [callers EXCEPT ![c].pc = "done", ![c].t = 0]
            /\ UNCHANGED <<tokens, last_update, rl_grants, taken>>
       ELSE LET a == acquire(tokens, last_update, requests, rl_config, now)
                suspend == a.granted /\ "consumed" \in suspension_points
            IN  /\ tokens' = a.tokens
                /\ last_update' = a.last_update
                /\ requests' = IF suspend THEN prune(requests, now) ELSE a.requests
                /\ taken' = IF a.granted THEN taken + 1 ELSE taken
                /\ stamped' = IF a.granted /\ ~suspend THEN stamped + 1 ELSE stamped
                /\ rl_grants' = IF a.granted THEN Append(rl_grants, now) ELSE rl_grants
                /\ callers' = [callers EXCEPT ![c] =
                                  [pc |-> IF suspend THEN "consumed" ELSE "done",
                                   t |-> IF suspend THEN now ELSE 0,
                                   granted |-> a.granted]]
    /\ UNCHANGED <<now, rl_config, rl_call, rl_burst, exceptCallers>>

\* Caller c is abandoned: cancelled before it ran or at a suspension point, or
\* its result is never looked at
CallerAbandon(c) ==
    /\ callers[c].pc # "abandoned"
    /\ callers' = [callers EXCEPT ![c].pc = "abandoned"]
    /\ UNCHANGED <<now, limiterVars, taken, stamped, exceptCallers>>

\* Time passes between two steps of the scheduler
CallersTick(d) ==
    /\ now + d <= MaxTime
    /\ now' = now + d
    /\ UNCHANGED <<limiterVars, callersVars, exceptCallers>>

----------------------------------------------------------------------------
(* MetricsTracker: src/retrieval/metrics.py *)

\* The number of records the history of the model holds at most
MaxMetrics == 2

\* Exact rationals [num, den] with den > 0
Rat(n, d) == [num |-> n, den |-> d]
RatLess(a, b) == a.num * b.den < b.num * a.den
RatMax(a, b) == IF RatLess(a, b) THEN b ELSE a
InUnit(a) == 0 <= a.num /\ a.num <= a.den

\* The results handed to calculate_metrics: all of them pass the validators
\* of RetrievalResult. execution_time is in milliseconds.
MetricsResults ==
    {r \in [query : {[TestQuery EXCEPT !.max_results = n] : n \in {1, 10}},
            chunks : SeqUpTo({16}, MaxChunks),
            similarity_scores : SeqUpTo({50, 95}, MaxChunks),
            execution_time : {100},
            total_chunks_searched : {0, 1, 100},
            context : {<<>>}] :
        Accepts(r.chunks, r.similarity_scores)}

\* Lines 91-92: max(x, 0.01)
floored(x) == RatMax(x, Rat(1, 100))

\* RetrievalMetrics(...): the bounds the fields declare (lines 16-22)
RetrievalMetricsAccepts(m) ==
    /\ InUnit(m.precision)
    /\ InUnit(m.recall)
    /\ InUnit(m.f1_score)
    /\ m.latency_ms >= 0
    /\ InUnit(m.token_utilization)

\* calculate_metrics(result), lines 79-110: the history afterwards and what the
\* call returned or raised
calculate_metrics(history, result) ==
    LET scores == result.similarity_scores
        relevant_count ==
            Cardinality({i \in 1..Len(scores) : scores[i] >= result.query.min_similarity})
        total_count == Len(scores)
        precision0 == IF total_count > 0 THEN Rat(relevant_count, total_count)
                      ELSE Rat(0, 1)
        recall0 == IF total_count > 0
                   THEN Rat(total_count, Max(result.total_chunks_searched, 1))
                   ELSE Rat(0, 1)
        precision == IF total_count > 0 THEN floored(precision0) ELSE precision0
        recall == IF total_count > 0 THEN floored(recall0) ELSE recall0
        f1_score == IF total_count > 0
                    THEN Rat(2 * precision.num * recall.num,
                             precision.num * recall.den + recall.num * precision.den)
                    ELSE Rat(0, 1)
        metrics == [precision |-> precision, recall |-> recall, f1_score |-> f1_score,
                    latency_ms |-> result.execution_time,
                    token_utilization |->
                        IF result.query.max_results > 0
                        THEN Rat(Len(result.chunks), result.query.max_results)
                        ELSE Rat(0, 1),
                    query_type |-> result.query.query_type]
    IN  IF RetrievalMetricsAccepts(metrics)
        THEN [history |-> Append(history, metrics), raised |-> "none", ret |-> <<metrics>>]
        ELSE [history |-> history, raised |-> "ValidationError", ret |-> <<>>]

NoMetricsCall ==
    [op |-> "none", result |-> <<>>, raised |-> "none", ret |-> <<>>, appended |-> 0]

MetricsIdle ==
    /\ metrics_history = <<>>
    /\ mt_call = NoMetricsCall

\* tracker.calculate_metrics(result)
CalculateMetrics(result) ==
    /\ Len(metrics_history) < MaxMetrics
    /\ LET c == calculate_metrics(metrics_history, result)
       IN  /\ metrics_history' = c.history
           /\ mt_call' = [op |-> "calculate_metrics", result |-> <<result>>,
                          raised |-> c.raised, ret |-> c.ret,
                          appended |-> Len(c.history) - Len(metrics_history)]
    /\ UNCHANGED exceptMetrics

----------------------------------------------------------------------------
(* SystemCoordinator: src/core/coordinator.py *)

\* The number of analyze_code() calls in flight or finished
MaxCalls == 2

Calls == 1..MaxCalls

\* cache_key arguments: None or the one key the callers share
CacheKeys == {"k"}
CacheKeyArgs == {<<>>} \cup {<<k>> : k \in CacheKeys}

\* A python dict over model names is a function whose domain is the key set
EmptyDict == [m \in {} |-> 0]

\* usage[model] = usage.get(model, 0) + tokens, for every item of more
DictAdd(usage, more) ==
    [m \in DOMAIN usage \cup DOMAIN more |->
        (IF m \in DOMAIN usage THEN usage[m] ELSE 0)
        + (IF m \in DOMAIN more THEN more[m] ELSE 0)]

\* The agents an analysis can come from, and what each may report under
\* findings["token_usage"] (none: the key is missing)
AgentNames == <<"behavioral", "security">>

AgentNameSet == {AgentNames[i] : i \in 1..Len(AgentNames)}

TokenReports(name) ==
    IF name = "behavioral" THEN {<<>>, <<[gemini |-> 100, gpt4_mini |-> 50]>>}
    ELSE {<<>>, <<[gemini |-> 7]>>}

\* ComprehensiveAnalysis.agent_analyses returned by reasoning.analyze: at most
\* one AgentAnalysis per agent, in the order of the agents
RECURSIVE AnalysesFrom(_)
AnalysesFrom(i) ==
    IF i > Len(AgentNames) THEN {<<>>}
    ELSE LET rest == AnalysesFrom(i + 1)
         IN  rest \cup
             {<<[agent_name |-> AgentNames[i], success |-> TRUE, token_usage |-> t]>> \o r :
                 t \in TokenReports(AgentNames[i]), r \in rest}

CoordAnalyses == AnalysesFrom(1)

\* _get_token_usage(analysis): the sum over all agent analyses, per model
RECURSIVE _get_token_usage(_)
_get_token_usage(agent_analyses) ==
    IF agent_analyses = <<>> THEN EmptyDict
    ELSE LET reported == Head(agent_analyses).token_usage
             rest == _get_token_usage(Tail(agent_analyses))
         IN  IF reported = <<>> THEN rest ELSE DictAdd(reported[1], rest)

\* AgentMetrics(): success_rate is kept as the count of successes over
\* total_operations; latencies are left out
NewAgentMetrics == [total_operations |-> 0, successes |-> 0, token_usage |-> EmptyDict]

\* _update_metrics(agent_id, success, latency, token_usage)
_update_metrics(metrics, agent_id, success, token_usage) ==
    LET m == IF metrics[agent_id] = <<>> THEN NewAgentMetrics ELSE metrics[agent_id][1]
    IN  [metrics EXCEPT ![agent_id] =
            <<[total_operations |-> m.total_operations + 1,
               successes |-> m.successes + (IF success THEN 1 ELSE 0),
               token_usage |-> DictAdd(m.token_usage, token_usage)]>>]

\* analyze_code, lines 116-123: every agent of the analysis is charged the
\* token usage extracted from the whole analysis
RECURSIVE UpdateAll(_, _, _)
UpdateAll(metrics, agent_analyses, token_usage) ==
    IF agent_analyses = <<>> THEN metrics
    ELSE UpdateAll(_update_metrics(metrics, Head(agent_analyses).agent_name,
                                   Head(agent_analyses).success, token_usage),
                   Tail(agent_analyses), token_usage)

NoCoordCall == [pc |-> "new", cache_key |-> <<>>, raised |-> FALSE, ret |-> <<>>]

NoAnalysis == [done |-> FALSE, agent_analyses |-> <<>>, pre_metrics |-> <<>>]

CoordinatorInit(enabled) ==
    /\ sc_config \in [enable_retrieval_cache : enabled]
    /\ sc_cache = [k \in CacheKeys |-> <<>>]
    /\ system_metrics = [cache_hits |-> 0, cache_misses |-> 0, total_analyses |-> 0]
    /\ agent_metrics = [n \in AgentNameSet |-> <<>>]
    /\ sc_calls = [c \in Calls |-> NoCoordCall]
    /\ analyze_runs = [k \in CacheKeys |-> 0]
    /\ sc_last = NoAnalysis

CoordinatorIdle == CoordinatorInit({TRUE})

\* get_metrics(): a copy of agent_metrics
get_metrics == agent_metrics

\* analyze_code(context, query, cache_key), lines 89-102: the call runs up to
\* its first suspension point, the await of reasoning.analyze, or returns the
\* cached analysis
AnalyzeCodeStart(c, cache_key) ==
    /\ sc_calls[c].pc = "new"
    /\ IF /\ sc_config.enable_retrieval_cache
          /\ cache_key # <<>>
          /\ sc_cache[cache_key[1]] # <<>>
       THEN /\ system_metrics' = [system_metrics EXCEPT !.cache_hits = @ + 1]
            /\ sc_calls' = [sc_calls EXCEPT ![c] =
                               [pc |-> "done", cache_key |-> cache_key, raised |-> FALSE,
                                ret |-> sc_cache[cache_key[1]]]]
            /\ UNCHANGED analyze_runs
       ELSE /\ system_metrics' = [system_metrics EXCEPT !.cache_misses = @ + 1]
            /\ sc_calls' = [sc_calls EXCEPT ![c] =
                               [NoCoordCall EXCEPT !.pc = "awaiting",
                                                   !.cache_key = cache_key]]
            /\ analyze_runs' = IF cache_key = <<>> THEN analyze_runs
                               ELSE [analyze_runs EXCEPT ![cache_key[1]] = @ + 1]
    /\ UNCHANGED <<sc_config, sc_cache, agent_metrics, sc_last, exceptCoordinator>>

\* analyze_code, lines 107-129: reasoning.analyze has returned an analysis
AnalyzeCodeReturns(c, agent_analyses) ==
    /\ sc_calls[c].pc = "awaiting"
    /\ LET cache_key == sc_calls[c].cache_key
           token_usage == _get_token_usage(agent_analyses)
       IN  /\ system_metrics' = [system_metrics EXCEPT !.total_analyses = @ + 1]
           /\ agent_metrics' = UpdateAll(agent_metrics, agent_analyses, token_usage)
           /\ sc_cache' = IF cache_key # <<>> /\ sc_config.enable_retrieval_cache
                          THEN [sc_cache EXCEPT ![cache_key[1]] = <<agent_analyses>>]
                          ELSE sc_cache
           /\ sc_calls' = [sc_calls EXCEPT ![c].pc = "done", ![c].ret = <<agent_analyses>>]
           /\ sc_last' = [done |-> TRUE, agent_analyses |-> agent_analyses,
                          pre_metrics |-> agent_metrics]
    /\ UNCHANGED <<sc_config, analyze_runs, exceptCoordinator>>

\* analyze_code, lines 131-133: reasoning.analyze has raised; it is re-raised
AnalyzeCodeRaises(c) ==
    /\ sc_calls[c].pc = "awaiting"
    /\ sc_calls' = [sc_calls EXCEPT ![c].pc = "done", ![c].raised = TRUE]
    /\ UNCHANGED <<sc_config, sc_cache, system_metrics, agent_metrics, analyze_runs,
                   sc_last, exceptCoordinator>>

----------------------------------------------------------------------------
(* Specifications, one per component *)

ClockIdle == now = 0

\* RetrievalResult construction
InitResult ==
    /\ ResultInit /\ ContextIdle /\ ClockIdle /\ LimiterIdle /\ CacheIdle
    /\ RetrieverIdle /\ FallbackIdle
    /\ GeminiIdle
    /\ ReasoningIdle
    /\ CallersIdle
    /\ MetricsIdle
    /\ CoordinatorIdle
NextResult == ConstructResult
SpecResult == InitResult /\ [][NextResult]_vars

\* A bare ContextWindow
InitWindow ==
    /\ ResultIdle /\ ContextInit(MaxTokensChoices) /\ ClockIdle /\ LimiterIdle
    /\ CacheIdle /\ RetrieverIdle /\ FallbackIdle
    /\ GeminiIdle
    /\ ReasoningIdle
    /\ CallersIdle
    /\ MetricsIdle
    /\ CoordinatorIdle
NextWindow ==
    \/ \E n \in TokenArgs(window) : CanAdd(n)
    \/ \E c \in WindowContents, n \in TokenArgs(window) : AddContent(c, n)
    \/ Clear
SpecWindow == InitWindow /\ [][NextWindow]_vars

\* A ContextManager and the window it owns
InitContext ==
    /\ ResultIdle /\ ContextInit(ManagerMaxTokensChoices) /\ ClockIdle /\ LimiterIdle
    /\ CacheIdle /\ RetrieverIdle /\ FallbackIdle
    /\ GeminiIdle
    /\ ReasoningIdle
    /\ CallersIdle
    /\ MetricsIdle
    /\ CoordinatorIdle
NextContext ==
    \/ \E r \in ContextResults : AddResult(r)
    \/ ClearContext
SpecContext == InitContext /\ [][NextContext]_vars

\* A RateLimiter, under any configuration
InitLimiter ==
    /\ ResultIdle /\ ContextIdle /\ LimiterInit(RateLimitConfigs) /\ CacheIdle
    /\ RetrieverIdle /\ FallbackIdle
    /\ GeminiIdle
    /\ ReasoningIdle
    /\ CallersIdle
    /\ MetricsIdle
    /\ CoordinatorIdle
NextLimiter ==
    \/ Acquire
    \/ \E d \in {20, 41} : LimiterTick(d)
SpecLimiter == InitLimiter /\ [][NextLimiter]_vars

\* A RateLimiter whose configuration admits at least one request per minute
InitLimiterRated ==
    /\ ResultIdle /\ ContextIdle /\ CacheIdle /\ RetrieverIdle /\ FallbackIdle
    /\ LimiterInit({c \in RateLimitConfigs : c.requests_per_minute >= 1})
    /\ GeminiIdle
    /\ ReasoningIdle
    /\ CallersIdle
    /\ MetricsIdle
    /\ CoordinatorIdle
SpecLimiterRated == InitLimiterRated /\ [][NextLimiter]_vars

\* A ResultCache
InitCache ==
    /\ ResultIdle /\ ContextIdle /\ LimiterIdle /\ CacheInit /\ RetrieverIdle
    /\ FallbackIdle
    /\ GeminiIdle
    /\ ReasoningIdle
    /\ CallersIdle
    /\ MetricsIdle
    /\ CoordinatorIdle
NextCache ==
    \/ \E q \in CacheQueries : Get(q)
    \/ \E q \in CacheQueries, r \in CacheResults : Put(q, r)
    \/ CacheTick
SpecCache == InitCache /\ [][NextCache]_vars

\* An AdaptiveRetriever
InitRetriever ==
    /\ ResultIdle /\ ContextIdle /\ ClockIdle /\ LimiterIdle /\ CacheIdle
    /\ RetrieverInit /\ FallbackIdle
    /\ GeminiIdle
    /\ ReasoningIdle
    /\ CallersIdle
    /\ MetricsIdle
    /\ CoordinatorIdle
NextRetriever ==
    \/ \E q \in RetrieverQueries : EstimateQueryComplexity(q)
    \/ \E q \in RetrieverQueries, a \in AgentIds : SelectStrategy(q, a)
    \/ \E q \in RetrieveQueries, a \in AgentIds : Retrieve(q, a)
SpecRetriever == InitRetriever /\ [][NextRetriever]_vars

\* A FallbackManager
InitFallback ==
    /\ ResultIdle /\ ContextIdle /\ LimiterIdle /\ CacheIdle /\ RetrieverIdle
    /\ FallbackInit
    /\ GeminiIdle
    /\ ReasoningIdle
    /\ CallersIdle
    /\ MetricsIdle
    /\ CoordinatorIdle
NextFallback ==
    \/ \E e \in FallbackErrors : ShouldActivateFallback(e)
    \/ \E e \in FallbackErrors, a \in {1, 4} : HandleFailure(e, TestQuery, a)
    \/ \E d \in {300, 3301} : FallbackTick(d)
SpecFallback == InitFallback /\ [][NextFallback]_vars

\* A GeminiRetriever
InitGemini ==
    /\ ResultIdle /\ ContextIdle /\ ClockIdle /\ LimiterIdle /\ CacheIdle
    /\ RetrieverIdle /\ FallbackIdle
    /\ GeminiIdle
    /\ ReasoningIdle
    /\ CallersIdle
    /\ MetricsIdle
    /\ CoordinatorIdle
NextGemini ==
    \E q \in GeminiQueries, s \in SearchResults, m \in ModelOutcomes :
        GeminiRetrieve(q, s, m)
SpecGemini == InitGemini /\ [][NextGemini]_vars

\* A ReasoningSystem running analyze()
InitReasoning ==
    /\ ResultIdle /\ ContextIdle /\ ClockIdle /\ LimiterIdle /\ CacheIdle
    /\ RetrieverIdle /\ FallbackIdle /\ GeminiIdle
    /\ ReasoningIdle
    /\ CallersIdle
    /\ MetricsIdle
    /\ CoordinatorIdle
NextReasoning ==
    \/ StartAnalyze
    \/ \E k \in AgentKeys : AgentReturns(k)
    \/ \E k \in AgentKeys : AgentRaises(k)
    \/ \E k \in AgentKeys : AgentTimesOut(k)
    \/ \E d \in {10, 20} : ReasoningTick(d)
    \/ Gather
SpecReasoning == InitReasoning /\ [][NextReasoning]_vars

\* Coroutines sharing one RateLimiter under the cooperative scheduler
InitCallers ==
    /\ ResultIdle /\ ContextIdle /\ CacheIdle /\ RetrieverIdle /\ FallbackIdle
    /\ GeminiIdle /\ ReasoningIdle
    /\ LimiterInit({c \in RateLimitConfigs : c.cooldown_seconds = 1})
    /\ CallersIdle
    /\ MetricsIdle
    /\ CoordinatorIdle
NextCallers ==
    \/ \E c \in Callers : CallerRun(c)
    \/ \E c \in Callers : CallerAbandon(c)
    \/ \E d \in {20, 41} : CallersTick(d)
SpecCallers == InitCallers /\ [][NextCallers]_vars

\* A MetricsTracker
InitMetrics ==
    /\ ResultIdle /\ ContextIdle /\ ClockIdle /\ LimiterIdle /\ CacheIdle
    /\ RetrieverIdle /\ FallbackIdle /\ GeminiIdle /\ ReasoningIdle /\ CallersIdle
    /\ MetricsIdle
    /\ CoordinatorIdle
NextMetrics == \E r \in MetricsResults : CalculateMetrics(r)
SpecMetrics == InitMetrics /\ [][NextMetrics]_vars

\* A SystemCoordinator and the analyze_code() calls made on it
InitCoordinator ==
    /\ ResultIdle /\ ContextIdle /\ ClockIdle /\ LimiterIdle /\ CacheIdle
    /\ RetrieverIdle /\ FallbackIdle /\ GeminiIdle /\ ReasoningIdle /\ CallersIdle
    /\ MetricsIdle
    /\ CoordinatorInit(BOOLEAN)
NextCoordinator ==
    \/ \E c \in Calls, k \in CacheKeyArgs : AnalyzeCodeStart(c, k)
    \/ \E c \in Calls, a \in CoordAnalyses : AnalyzeCodeReturns(c, a)
    \/ \E c \in Calls : AnalyzeCodeRaises(c)
SpecCoordinator == InitCoordinator /\ [][NextCoordinator]_vars

----------------------------------------------------------------------------
(* Properties of ContextManager.add_result *)

\* The results held by the window
Held(w) == {w.contents[i].result : i \in 1..Len(w.contents)}

\* C1: add_result(result) returns true if and only if, when it returns, the
\* result is one of the entries of the window, on the direct path and on the
\* eviction path alike.
C1_TrueIffHeld ==
    ctx_call.op = "add_result" =>
        (ctx_call.ret <=> ctx_call.arg[1] \in Held(window))

\* C7: current_tokens never exceeds max_tokens and equals the sum of the
\* estimated token costs (the len/4 estimate add_result charges) of the entries
\* held.
C7_TokenAccounting ==
    /\ window.current_tokens <= window.max_tokens
    /\ window.current_tokens =
          SumSeq([i \in 1..Len(window.contents) |->
                     total_tokens(window.contents[i].result)])

\* C8: after _optimize_window ran on a non-empty window, every entry still held
\* has a relevance of at least 0.7.
C8_FloorAfterOptimize ==
    (ctx_call.op = "add_result" /\ ctx_call.path = "optimize") =>
        \A i \in 1..Len(window.contents) :
            window.contents[i].relevance.sum >= 70 * window.contents[i].relevance.n

\* C8, its case: an eviction that kept an entry and dropped one below 0.7 for
\* which there was still room beside the kept ones and the new result
C8_Witness ==
    /\ ctx_call.op = "add_result" /\ ctx_call.path = "optimize"
    /\ window.contents # <<>>
    /\ \E i \in 1..Len(ctx_call.pre.contents) :
          LET e == ctx_call.pre.contents[i]
          IN  /\ e.relevance.sum < 70 * e.relevance.n
              /\ e.result \notin Held(window)
              /\ window.current_tokens + StrLen(e.result)
                    <= window.max_tokens - ctx_call.n

\* C9: after an eviction no evicted entry has a relevance strictly higher than
\* a retained one, and the retained entries' token cost plus the new result's
\* required tokens stays within max_tokens.
C9_RetainedOutrankEvicted ==
    (ctx_call.op = "add_result" /\ ctx_call.path = "optimize") =>
        /\ \A i \in 1..Len(ctx_call.pre.contents) :
              \A k \in 1..Len(window.contents) :
                  ctx_call.pre.contents[i].result \notin Held(window) =>
                      ~RelLess(window.contents[k].relevance,
                               ctx_call.pre.contents[i].relevance)
        /\ window.current_tokens + ctx_call.n <= window.max_tokens

----------------------------------------------------------------------------
(* Properties of ContextWindow *)

\* C10: can_add(n) is true exactly when current_tokens + n <= max_tokens, and
\* an add_content whose token count does not fit returns false and leaves
\* current_tokens and contents as they were.
C10_CanAddAndReject ==
    /\ ctx_call.op = "can_add" =>
          (ctx_call.ret <=> window.current_tokens + ctx_call.n <= window.max_tokens)
    /\ (ctx_call.op = "add_content"
        /\ ctx_call.pre.current_tokens + ctx_call.n > ctx_call.pre.max_tokens) =>
          /\ ~ctx_call.ret
          /\ window.current_tokens = ctx_call.pre.current_tokens
          /\ window.contents = ctx_call.pre.contents
    /\ (ctx_call.op = "can_add" /\ window.contents = <<>>
        /\ ctx_call.n = window.max_tokens) => ctx_call.ret
    /\ (ctx_call.op = "can_add" /\ window.current_tokens = window.max_tokens
        /\ window.max_tokens > 0 /\ ctx_call.n = window.max_tokens) => ~ctx_call.ret

\* C10, its case: a window holding exactly max_tokens > 0 tokens refuses an
\* add_content of max_tokens more
C10_Witness ==
    /\ ctx_call.op = "add_content" /\ ~ctx_call.ret
    /\ window.max_tokens > 0
    /\ window.current_tokens = window.max_tokens
    /\ ctx_call.n = window.max_tokens
    /\ window.contents # <<>>

----------------------------------------------------------------------------
(* Properties of RetrievalResult *)

\* C6: constructing a RetrievalResult fails whenever chunks and
\* similarity_scores differ in length, a score lies outside [0,1] or a chunk
\* has empty content.
C6_ConstructionRejects ==
    (/\ rr_out.done
     /\ \/ Len(rr_input.chunks) # Len(rr_input.similarity_scores)
        \/ \E i \in 1..Len(rr_input.similarity_scores) :
              rr_input.similarity_scores[i] < 0 \/ rr_input.similarity_scores[i] > 100
        \/ \E i \in 1..Len(rr_input.chunks) : rr_input.chunks[i] = 0)
    => rr_out.raised

----------------------------------------------------------------------------
(* Properties of RateLimiter *)

\* Grants of the trailing 60 seconds, counted on the history of grants
GrantsInWindow ==
    Cardinality({i \in 1..Len(rl_grants) : rl_grants[i] >= now - 60})

\* The limiter is fresh and every call so far was issued at the instant of its
\* construction
FreshInstant == now = 0

\* C3 as stated: on a fresh limiter, for every configuration, burst_limit calls
\* at the same instant are all granted and the next one is denied with a wait
\* strictly greater than 0.
C3_BurstThenDenied_AnyConfig ==
    FreshInstant =>
        \A i \in 1..Len(rl_burst) :
            /\ i <= rl_config.burst_limit =>
                  (~rl_burst[i].raised /\ rl_burst[i].granted)
            /\ i = rl_config.burst_limit + 1 =>
                  (~rl_burst[i].raised /\ ~rl_burst[i].granted /\ rl_burst[i].wait > 0)

\* Configurations in which the bucket, not the 60-second window, bounds a burst
\* and a denial carries a positive wait
BurstConfig ==
    /\ rl_config.requests_per_minute >= 1
    /\ rl_config.burst_limit <= rl_config.requests_per_minute
    /\ (rl_config.cooldown_seconds > 0
        \/ rl_config.burst_limit = rl_config.requests_per_minute)

\* C3 as amended: the same, for the configurations with
\* 1 <= requests_per_minute, burst_limit <= requests_per_minute and
\* (cooldown_seconds > 0 or burst_limit = requests_per_minute).
C3_BurstThenDenied ==
    (FreshInstant /\ BurstConfig) =>
        \A i \in 1..Len(rl_burst) :
            /\ i <= rl_config.burst_limit =>
                  (~rl_burst[i].raised /\ rl_burst[i].granted)
            /\ i = rl_config.burst_limit + 1 =>
                  (~rl_burst[i].raised /\ ~rl_burst[i].granted /\ rl_burst[i].wait > 0)

\* C3, its case: a burst of burst_limit >= 2 grants followed by a denial that
\* the empty bucket, not the window, causes
C3_Witness ==
    /\ FreshInstant /\ BurstConfig
    /\ rl_config.burst_limit >= 2
    /\ rl_config.burst_limit < rl_config.requests_per_minute
    /\ Len(rl_burst) = rl_config.burst_limit + 1
    /\ ~rl_burst[Len(rl_burst)].granted
    /\ rl_burst[Len(rl_burst)].wait = rl_config.cooldown_seconds

\* C4: the token count stays within [0, burst_limit] and at most
\* requests_per_minute grants lie in the trailing 60 seconds.
C4_TokensAndWindowBounded ==
    /\ 0 <= tokens
    /\ tokens <= rl_config.burst_limit * 60
    /\ GrantsInWindow <= rl_config.requests_per_minute

\* C4, its case: the window is full again after an older grant has left it
C4_Witness ==
    /\ rl_config.requests_per_minute >= 2
    /\ GrantsInWindow = rl_config.requests_per_minute
    /\ Len(rl_grants) > rl_config.requests_per_minute
    /\ rl_call.op = "acquire" /\ rl_call.t = now /\ ~rl_call.granted

\* C5: acquire() never raises; it denies with the time until the oldest
\* timestamp leaves the window when the window holds >= requests_per_minute
\* timestamps, else denies with cooldown_seconds when fewer than 1 token is
\* available, else consumes one token, records one timestamp and grants with
\* wait 0; a denial consumes no token and records no timestamp.
C5_AcquireDecision ==
    rl_call.op = "acquire" =>
        /\ ~rl_call.raised
        /\ LET t == rl_call.t
               inWindow == SelectSeq(rl_call.pre_requests, LAMBDA x : x >= t - 60)
               available == Min(rl_config.burst_limit * 60,
                                rl_call.pre_tokens
                                + (t - rl_call.pre_last) * rl_config.requests_per_minute)
           IN  IF Len(inWindow) >= rl_config.requests_per_minute
               THEN /\ ~rl_call.granted
                    /\ rl_call.wait = 60 - (t - Head(inWindow))
                    /\ tokens = available
                    /\ requests = inWindow
               ELSE IF available < 60
               THEN /\ ~rl_call.granted
                    /\ rl_call.wait = rl_config.cooldown_seconds
                    /\ tokens = available
                    /\ requests = inWindow
               ELSE /\ rl_call.granted
                    /\ rl_call.wait = 0
                    /\ tokens = available - 60
                    /\ requests = Append(inWindow, t)

----------------------------------------------------------------------------
(* Properties of ResultCache *)

\* The call just made is a get(q) that directly follows a put(q, r), no time
\* having passed, on a cache of max_size >= 1
GetRightAfterPut ==
    /\ cache_call.op = "get"
    /\ cache_call.prev_op = "put"
    /\ cache_call.prev_query = cache_call.query
    /\ cache_config.max_size >= 1

FoundByGet ==
    LET pre == cache_call.pre_cache
        i == IndexOf(pre, _compute_key(cache_call.query[1]))
    IN  IF i = 0 THEN <<>> ELSE <<pre[i]>>

\* C11: a get(q) that finds q's entry at an age above ttl_seconds returns
\* absent, removes that entry (and no other), adds one to misses and leaves hits
\* alone; at an age of at most ttl_seconds the entry stays in the cache and is
\* returned whenever its query is similar to q.
C11_TtlExpiry ==
    (cache_call.op = "get" /\ FoundByGet # <<>>) =>
        LET e == FoundByGet[1]
            pre == cache_call.pre_cache
        IN  IF now - e.timestamp > cache_config.ttl_seconds
            THEN /\ cache_call.ret = <<>>
                 /\ cache = RemoveAt(pre, IndexOf(pre, e.key))
                 /\ misses = cache_call.pre_misses + 1
                 /\ hits = cache_call.pre_hits
            ELSE /\ cache = pre
                 /\ _is_similar_query(e.result.query, cache_call.query[1])
                        => cache_call.ret = <<e.result>>

\* C11, its case: a get that found its entry expired and removed it from a
\* cache that held another entry, after an earlier get had hit at age ttl_seconds
C11_Witness ==
    /\ cache_call.op = "get"
    /\ FoundByGet # <<>>
    /\ now - FoundByGet[1].timestamp > cache_config.ttl_seconds
    /\ Len(cache_call.pre_cache) = 2
    /\ Len(cache) = 1
    /\ hits = 1

\* The entry a put(q, r) writes, the entries it may keep, and those it removed
PutEntry ==
    [key |-> _compute_key(cache_call.query[1]), result |-> cache_call.result[1],
     timestamp |-> now]

PutCandidates ==
    {cache_call.pre_cache[i] : i \in 1..Len(cache_call.pre_cache)} \cup {PutEntry}

PutRetained == {cache[i] : i \in 1..Len(cache)}

PutEvicted == {e \in PutCandidates : e.key \notin Keys(cache)}

C13_EvictsLeastRecentlyUsed ==
    [][(/\ cache_call.op = "get"
        /\ cache_call.ret # <<>>
        /\ cache_call'.op = "put"
        /\ _compute_key(cache_call.query[1]) \notin Keys(cache'))
           => Keys(cache) \cap Keys(cache') = {}]_vars

----------------------------------------------------------------------------
(* Properties of AdaptiveRetriever *)

\* C15 as stated: when retrieve() is called twice in a row with the same query
\* (same agent, no time passing), the second call returns the result of the
\* first without a call to the retrieval primitive.
C15_SecondCallFromCache ==
    (ar_call.op = "retrieve" /\ ar_call.same) =>
        /\ ar_call.raised = "none"
        /\ ar_call.primitive = 0
        /\ ar_call.ret # <<>>
        /\ ar_call.ret = ar_call.prev_ret

\* C16 as stated: _select_strategy returns thorough if complexity > 0.8 or
\* window size > 1,000,000, otherwise balanced if complexity > 0.4 or window
\* size > 500,000, otherwise quick; without a coordinator or an agent_id the
\* window size is 500,000.
C16_StrategyRule ==
    ar_call.op = "_select_strategy" =>
        /\ ar_call.raised = "none"
        /\ (coordinator = <<>> \/ ar_call.agent_id = <<>>) => ar_call.window_size = 500000
        /\ LET c == ar_call.complexity[1]
               w == ar_call.window_size
           IN  ar_call.strategy =
                   IF c.num * 10 > 8 * c.den \/ w > 1000000 THEN "thorough"
                   ELSE IF c.num * 10 > 4 * c.den \/ w > 500000 THEN "balanced"
                   ELSE "quick"

\* C17 as stated: for every query _estimate_query_complexity returns a value in
\* [0, 1], the sum of (words, filters, quotes, has code context, has metadata)
\* weighted by (0.3, 0.2, 0.1, 0.2, 0.2) over the total weight.
C17_ComplexityInUnitInterval ==
    ar_call.op = "_estimate_query_complexity" =>
        /\ ar_call.raised = "none"
        /\ LET c == ar_call.complexity[1]
               q == ar_call.query[1]
           IN  /\ c.den = 10
               /\ c.num = 3 * Len(q.text) + 2 * q.filters + count_quotes(q.text)
                          + 2 * AsInt(q.code_context) + 2 * AsInt(q.metadata)
               /\ 0 <= c.num
               /\ c.num <= c.den

\* C18: when the retrieval primitive raises inside retrieve(), the selected
\* strategy's total_queries grows by one, its successful_queries and
\* avg_latency stay, the other strategies' counters and the learned patterns
\* stay, and retrieve() raises what the primitive raised.
C18_FailureCountedAndReraised ==
    (ar_call.op = "retrieve" /\ ar_call.primitive_raised # "none") =>
        LET pre == ar_call.pre_performance[1]
            name == ar_call.strategy
        IN  /\ performance[name].total_queries = pre[name].total_queries + 1
            /\ performance[name].successful_queries = pre[name].successful_queries
            /\ performance[name].avg_latency = pre[name].avg_latency
            /\ \A n \in DOMAIN performance \ {name} : performance[n] = pre[n]
            /\ query_patterns = ar_call.pre_patterns[1]
            /\ ar_call.raised = ar_call.primitive_raised
            /\ ar_call.ret = <<>>

\* C18, its case: the primitive raised under the balanced strategy, on a
\* retriever with a coordinator, after an earlier failure under another strategy
C18_Witness ==
    /\ ar_call.op = "retrieve"
    /\ ar_call.primitive_raised # "none"
    /\ ar_call.strategy = "balanced"
    /\ coordinator # <<>>
    /\ performance["balanced"].total_queries = 1
    /\ \E n \in {"quick", "thorough"} : performance[n].total_queries = 1

----------------------------------------------------------------------------
(* Properties of FallbackManager *)

\* The failures of the history that are at most five minutes old
RecentFailures ==
    Cardinality({i \in 1..Len(failure_history) : now - failure_history[i].dt <= 300})

\* The activation rule of the claim, for the error of the last call
ActivationRule ==
    LET e == fb_call.error[1]
    IN  \/ RecentFailures >= 3
        \/ e.cls \in {"TimeoutError", "ConnectionError"}
        \/ (Len(e.message) >= 3 /\ e.message[1] = "Rate" /\ e.message[2] = "limit"
            /\ e.message[3] = "exceeded")

\* C19: _should_activate_fallback(error) is true if and only if at least 3
\* failures were recorded in the last 5 minutes, or the error is a TimeoutError
\* or a ConnectionError, or its message signals a rate limit; handle_failure
\* escalates within max_retries exactly under that rule.
C19_ActivationRule ==
    /\ fb_call.op = "_should_activate_fallback" => (fb_call.activate <=> ActivationRule)
    /\ (fb_call.op = "handle_failure" /\ fb_call.attempt <= fb_config.max_retries)
           => (fb_call.escalated <=> ActivationRule)

\* C19, its case: a generic exception activates the fallback on a history of
\* three failures, the oldest of them exactly five minutes old
C19_Witness ==
    /\ fb_call.op = "_should_activate_fallback"
    /\ fb_call.error[1].cls = "Exception"
    /\ fb_call.error[1].message = <<"boom">>
    /\ fb_call.activate
    /\ Len(failure_history) = 3
    /\ now - failure_history[1].dt = 300
    /\ \A i \in 1..3 : failure_history[i].error.cls = "Exception"

\* C20 as stated: an escalating handle_failure visits the configured strategies
\* in order, returns None only after visiting every one of them, and under the
\* default order returns the empty RetrievalResult of error-only at worst.
C20_EscalationExhaustsStrategies ==
    (fb_call.op = "handle_failure" /\ fb_call.escalated) =>
        /\ fb_call.tried = SubSeq(fb_config.strategies, 1, Len(fb_call.tried))
        /\ fb_call.ret = <<>> => fb_call.tried = fb_config.strategies
        /\ fb_config.strategies = DefaultStrategies => fb_call.ret # <<>>

\* C21 as stated: handle_failure within max_retries, for an error the
\* activation rule rejects, records the failure, waits retry_delay * attempt,
\* tries no strategy and returns None without raising.
C21_PlainRetryReturnsNone ==
    (/\ fb_call.op = "handle_failure"
     /\ fb_call.attempt <= fb_config.max_retries
     /\ ~ActivationRule) =>
        /\ failure_history # <<>>
        /\ failure_history[Len(failure_history)].error = fb_call.error[1]
        /\ now - failure_history[Len(failure_history)].dt
              = fb_config.retry_delay * fb_call.attempt
        /\ fb_call.tried = <<>>
        /\ fb_call.ret = <<>>
        /\ fb_call.raised = "none"

----------------------------------------------------------------------------
(* Properties of GeminiRetriever *)

\* The last call asked for enrichment and the model call failed
EnrichmentFailed ==
    /\ gm_call.op = "retrieve"
    /\ gm_call.query[1].include_context
    /\ gm_call.model = "fails"

\* C22 as stated: a failure of the context-enrichment call does not fail the
\* retrieval; retrieve still returns a RetrievalResult with the retrieved
\* chunks and scores and with context None.
C22_EnrichmentFailureDegrades ==
    (EnrichmentFailed /\ \A i \in 1..Len(gm_call.search_results) :
                             gm_call.search_results[i].content # 0) =>
        /\ gm_call.raised = "none"
        /\ gm_call.ret # <<>>
        /\ gm_call.ret[1].context = <<>>
        /\ Len(gm_call.ret[1].chunks) = Len(gm_call.search_results)
        /\ \A i \in 1..Len(gm_call.search_results) :
              /\ gm_call.ret[1].chunks[i] = gm_call.search_results[i].content
              /\ gm_call.ret[1].similarity_scores[i] = gm_call.search_results[i].score

----------------------------------------------------------------------------
(* Properties of ReasoningSystem *)

\* The analyses of the report analyze() returned
ReportAnalyses ==
    {rs_report[1].agent_analyses[i] : i \in 1..Len(rs_report[1].agent_analyses)}

\* C23 as stated: each agent call is time-boxed to 30 seconds; a timeout or an
\* exception in one agent is not fatal: the report holds the analysis of every
\* agent that returned, and an agent that timed out is represented in
\* agent_analyses by an analysis with its name, confidence 0 and a "timed out"
\* finding.
C23_TimeoutIsNonFatal ==
    /\ \A k \in AgentKeys :
          rs_tasks[k].status = "running" => now - rs_start <= AgentTimeout
    /\ rs_pc = "done" =>
          /\ rs_report # <<>>
          /\ \A k \in AgentKeys :
                /\ rs_tasks[k].outcome = "returned" => agent_analyze(k) \in ReportAnalyses
                /\ rs_tasks[k].outcome = "timed_out" =>
                      \E a \in ReportAnalyses :
                          /\ a.agent_name = agent_name(k)
                          /\ a.confidence = 0
                          /\ a.findings = "Analysis timed out"

----------------------------------------------------------------------------
(* Properties of concurrent callers of RateLimiter.acquire *)

\* C24: under any interleaving of callers of acquire(), a caller abandoned at
\* any suspension point included, a grant's two side effects are atomic: in
\* every reachable state as many tokens were taken as timestamps recorded, each
\* granted caller accounts for one of each, the token count stays within
\* [0, burst_limit] and at most requests_per_minute grants lie in any trailing
\* 60 seconds.
C24_GrantIsAtomic ==
    /\ taken = stamped
    /\ taken = Cardinality({c \in Callers : callers[c].granted})
    /\ Len(rl_grants) = stamped
    /\ 0 <= tokens /\ tokens <= rl_config.burst_limit * 60
    /\ Len(requests) <= rl_config.requests_per_minute
    /\ Cardinality({i \in 1..Len(rl_grants) : rl_grants[i] >= now - WindowSeconds})
          <= rl_config.requests_per_minute

\* C24, its case: one caller was granted and then abandoned, a second was
\* abandoned before it ran, and a third was denied by the full window
C24_Witness ==
    /\ \E c \in Callers : callers[c].pc = "abandoned" /\ callers[c].granted
    /\ \E c \in Callers : callers[c] = [NoCaller EXCEPT !.pc = "abandoned"]
    /\ \E c \in Callers : callers[c].pc = "done" /\ ~callers[c].granted
    /\ taken = 1 /\ stamped = 1
    /\ Len(requests) = rl_config.requests_per_minute

----------------------------------------------------------------------------
(* Properties of MetricsTracker *)

\* The argument of the last call
MetricsArg == mt_call.result[1]

\* C25 as stated: calculate_metrics returns f1_score > 0 for every
\* RetrievalResult that holds at least one chunk and f1_score = 0 for one that
\* holds none; precision and recall are each at least 0.01 once any result
\* exists.
C25_F1PositiveWithChunks ==
    mt_call.op = "calculate_metrics" =>
        /\ mt_call.ret # <<>>
        /\ MetricsArg.chunks # <<>> =>
              /\ mt_call.ret[1].f1_score.num > 0
              /\ ~RatLess(mt_call.ret[1].precision, Rat(1, 100))
              /\ ~RatLess(mt_call.ret[1].recall, Rat(1, 100))
        /\ MetricsArg.chunks = <<>> => mt_call.ret[1].f1_score.num = 0

\* C29 as stated: calculate_metrics never fails on a RetrievalResult that
\* construction accepts; it returns a record whose precision, recall, f1_score
\* and token_utilization lie in [0, 1] and appends exactly one record to
\* metrics_history.
C29_CalculateMetricsTotal ==
    mt_call.op = "calculate_metrics" =>
        /\ mt_call.raised = "none"
        /\ mt_call.ret # <<>>
        /\ InUnit(mt_call.ret[1].precision)
        /\ InUnit(mt_call.ret[1].recall)
        /\ InUnit(mt_call.ret[1].f1_score)
        /\ InUnit(mt_call.ret[1].token_utilization)
        /\ mt_call.appended = 1
        /\ metrics_history[Len(metrics_history)] = mt_call.ret[1]

----------------------------------------------------------------------------
(* Properties of SystemCoordinator *)

\* What one agent's own analysis reported under findings["token_usage"]
OwnTokens(agent_analysis) ==
    IF agent_analysis.token_usage = <<>> THEN EmptyDict ELSE agent_analysis.token_usage[1]

\* The metrics of an agent before the last analysis was accounted
PreMetrics(name) ==
    IF sc_last.pre_metrics[name] = <<>> THEN NewAgentMetrics
    ELSE sc_last.pre_metrics[name][1]

\* C26 as stated: after analyze_code succeeds, the token_usage recorded for
\* each agent of the analysis has grown, per model, by exactly the tokens that
\* agent's own analysis reported, for any number of agents in the analysis, and
\* its total_operations has grown by 1.
C26_OwnTokensPerAgent ==
    sc_last.done =>
        \A i \in 1..Len(sc_last.agent_analyses) :
            LET a == sc_last.agent_analyses[i]
            IN  /\ get_metrics[a.agent_name] # <<>>
                /\ get_metrics[a.agent_name][1].token_usage
                      = DictAdd(PreMetrics(a.agent_name).token_usage, OwnTokens(a))
                /\ get_metrics[a.agent_name][1].total_operations
                      = PreMetrics(a.agent_name).total_operations + 1

\* The analyze_code() calls that have started
CallsStarted == {c \in Calls : sc_calls[c].pc # "new"}

----------------------------------------------------------------------------
(* The token cost of a result on the two paths of add_result *)

\* C27 as stated: the token cost charged to the window for a result is the
\* same on every path, the len(text)/4 estimate: a result admitted directly
\* raises current_tokens by its estimate, and after _optimize_window re-inserted
\* the entries it kept, current_tokens is the sum of their estimates.
C27_SameCostOnEveryPath ==
    ctx_call.op = "add_result" =>
        /\ ctx_call.path = "direct" =>
              window.current_tokens
                  = ctx_call.pre.current_tokens + total_tokens(ctx_call.arg[1])
        /\ ctx_call.path = "optimize" =>
              window.current_tokens
                  = SumSeq([i \in 1..Len(window.contents) |->
                               total_tokens(window.contents[i].result)])

\* A get(q) that directly follows a put(p, r) on a cache that then holds the
\* entry of that put and no other
GetOfTheOnlyEntry ==
    /\ cache_call.op = "get"
    /\ cache_call.prev_op = "put"
    /\ Len(cache_call.pre_cache) = 1

\* p and q are equal in the fields the key is computed from (filters is None
\* in every query here)
SameKeyFields(p, q) ==
    /\ p.query = q.query
    /\ p.query_type = q.query_type
    /\ p.max_results = q.max_results

====
